---- MODULE Spec2Model ----
(***************************************************************************)
(* Model of the chat turn of ChatInterface (src/src/components/            *)
(* ChatInterface.tsx, sendMessage, lines 24-128): the optimistic message   *)
(* list, the request, the streaming read loop with its line buffer, the    *)
(* persistence step and the error path.                                    *)
(*                                                                         *)
(* Text is a sequence of tokens.  A token is a string holding the exact    *)
(* characters it stands for; the characters the code inspects one by one   *)
(* (newline, carriage return, space, colon) are tokens of their own, the   *)
(* interior of a JSON payload is cut into a few multi-character tokens.    *)
(* The response body is a sequence of wire tokens: the same tokens, except *)
(* that the two-byte character e-acute travels as its two UTF-8 bytes.     *)
(*                                                                         *)
(* Spec is the mounted component; SpecTeardown adds the teardown of the    *)
(* component while a call is running; FairSpec adds that the promises a    *)
(* call awaits settle.                                                     *)
(*                                                                         *)
(* The other components of the repository follow, each with a              *)
(* specification of its own over the same variables, the state of the      *)
(* components it does not use being held at rest: SpecImage is the chat    *)
(* with image generation (AvatarCustomizer.tsx, lines 570-870), SpecLoops  *)
(* runs the read loop of sendMessageInternal (AvatarCustomizer.tsx, lines  *)
(* 370-400) beside the one of sendMessage, SpecPanels is one of the panels *)
(* TaskManager, AutomationManager and MemoryManager with its table, and    *)
(* SpecAvatar is AvatarCustomizer.                                         *)
(***************************************************************************)
EXTENDS Integers, Sequences, FiniteSets, TLC

VARIABLES
    messages,          \* useState<Message[]>: the displayed list
    input,             \* useState(""): the text box
    loading,           \* useState(false)
    mounted,           \* the component is rendered; FALSE once React has torn it down
    pc,                \* where sendMessage is suspended: an await, or "idle"
    userMessage,       \* const userMessage of the running call
    textBuffer,        \* let textBuffer
    assistantMessage,  \* let assistantMessage
    streamDone,        \* let streamDone
    pending,           \* bytes the TextDecoder holds back (stream: true)
    toasts,            \* toast.error calls, in order
    inserts,           \* chat_messages insert calls, in order
    lines,             \* the kinds of the lines of the response body
    stream,            \* the response body, as wire tokens
    pos,               \* how many wire tokens reader.read() has delivered
    eof,               \* reader.read() has returned done
    consumed,          \* lines taken out of textBuffer for good
    log,               \* every `assistantMessage += content`: line number, text
    carried,           \* textBuffer was not empty when the last chunk arrived
    before,            \* the message list when sendMessage was called
    outcome            \* how the call ended; "abandoned" while it goes on
                       \* after a teardown during the read loop

\* the chat with image generation (AvatarCustomizer.tsx, lines 570-890)
VARIABLES
    imagePrompt,       \* useState(""): the image description box
    generatingImage,   \* useState(false)
    imagePc,           \* where generateImage is suspended: an await, or "idle"
    imageCalls         \* calls of generateImage so far

\* the stream loop of sendMessageInternal (AvatarCustomizer.tsx, lines 362-400)
\* beside the loop of sendMessage, on the same chunks
VARIABLES
    internalAssistantMessage,  \* let assistantMessage of sendMessageInternal
    internalMessages,          \* the displayed list of its component
    wholeLines,                \* every chunk so far ended at the end of a line
    manyChunks                 \* more than one chunk was delivered

\* the panels TaskManager (TaskManager.tsx), AutomationManager
\* (AutomationManager.tsx) and MemoryManager (ChatInterface.tsx, lines
\* 229-433) with the table each one shows
VARIABLES
    panel,             \* which of the three components this is
    table,             \* the rows of the user in the backend, newest first
    shown,             \* useState([]): tasks, commands or memories
    showAdd,           \* useState(false): the form is open
    formLoading,       \* useState(false): loading
    newItem,           \* the required field of newTask, newCommand, newMemory
    calls,             \* the handler calls that have not returned yet
    notices,           \* toast.error calls, in order
    started,           \* handler calls so far
    created,           \* rows inserted so far
    toggles,           \* per row, the updates a toggle has made to it
    failed             \* a backend call of some handler did not succeed

\* AvatarCustomizer (AvatarCustomizer.tsx, lines 14-181)
VARIABLES
    prompt,            \* useState(""): the description
    generating,        \* useState(false)
    previewUrl,        \* useState(null): a generated avatar is on preview
    uploadedPhotos,    \* useState([]): the stored photo selection
    avatarToast,       \* the toast shown last
    saves              \* the saveAvatar calls that have not returned yet

chatVars == <<messages, input, loading, mounted, pc, userMessage, textBuffer,
              assistantMessage, streamDone, pending, toasts, inserts, lines,
              stream, pos, eof, consumed, log, carried, before, outcome>>

imageVars == <<imagePrompt, generatingImage, imagePc, imageCalls>>

loopVars == <<internalAssistantMessage, internalMessages, wholeLines,
              manyChunks>>

panelVars == <<panel, table, shown, showAdd, formLoading, newItem, calls,
               notices, started, created, toggles, failed>>

avatarVars == <<prompt, generating, previewUrl, uploadedPhotos, avatarToast,
                saves>>

\* the state outside the chat turn, which sendMessage never touches
outsideChat == <<imageVars, loopVars, panelVars, avatarVars>>

\* the state outside the chat with image generation
outsideImage == <<loopVars, panelVars, avatarVars>>

\* the state outside the two stream loops
outsideLoops == <<imageVars, panelVars, avatarVars>>

\* the state outside the panels
outsidePanels == <<chatVars, imageVars, loopVars, avatarVars>>

\* the state outside AvatarCustomizer
outsideAvatar == <<chatVars, imageVars, loopVars, panelVars>>

vars == <<chatVars, imageVars, loopVars, panelVars, avatarVars>>

----------------------------------------------------------------------------
(* Bounds *)

MaxLines == 3

----------------------------------------------------------------------------
(* Tokens *)

LF == "\n"
CR == "\r"
SP == " "
COLON == ":"
QUOTE == "\""
DataWord == "data"
DoneToken == "[DONE]"
OPEN == "{\"choices\":[{\"delta\":{"
KEY == "\"content\":"
CLOSE == "}}]}"
EAcute == "e-acute"
ByteC3 == "0xC3"
ByteA9 == "0xA9"
Replacement == "U+FFFD"

Letters == {"A", "B", EAcute}

----------------------------------------------------------------------------
(* String operations of the code *)

\* String.prototype.indexOf("\n"), 1-based; 0 where the code gets -1
RECURSIVE IndexFrom(_, _, _)
IndexFrom(s, c, i) ==
    IF i > Len(s) THEN 0
    ELSE IF s[i] = c THEN i
    ELSE IndexFrom(s, c, i + 1)

IndexOf(s, c) == IndexFrom(s, c, 1)

StartsWith(s, p) == Len(s) >= Len(p) /\ SubSeq(s, 1, Len(p)) = p

EndsWith(s, p) == Len(s) >= Len(p) /\ SubSeq(s, Len(s) - Len(p) + 1, Len(s)) = p

IsWhiteSpace(c) == c \in {SP, CR, LF, "\t"}

RECURSIVE TrimStart(_)
TrimStart(s) ==
    IF s # <<>> /\ IsWhiteSpace(Head(s)) THEN TrimStart(Tail(s)) ELSE s

RECURSIVE TrimEnd(_)
TrimEnd(s) ==
    IF s # <<>> /\ IsWhiteSpace(s[Len(s)])
    THEN TrimEnd(SubSeq(s, 1, Len(s) - 1))
    ELSE s

\* String.prototype.trim
Trim(s) == TrimEnd(TrimStart(s))

\* the number of characters a token stands for, as far as slice(6) needs it
CharLen(c) == IF c = DataWord THEN 4 ELSE 1

\* String.prototype.slice(n): drop the tokens that hold the first n characters
RECURSIVE Slice(_, _)
Slice(s, n) ==
    IF n <= 0 \/ s = <<>> THEN s ELSE Slice(Tail(s), n - CharLen(Head(s)))

DataPrefix == <<DataWord, COLON, SP>>

----------------------------------------------------------------------------
(* TextDecoder.decode(value, { stream: true }) *)

\* p: the byte held back by the previous call (<<>> or <<ByteC3>>)
RECURSIVE DecodeFrom(_, _, _)
DecodeFrom(p, bytes, out) ==
    IF bytes = <<>> THEN [text |-> out, pending |-> p]
    ELSE LET b == Head(bytes) IN
         IF p = <<ByteC3>>
         THEN IF b = ByteA9
              THEN DecodeFrom(<<>>, Tail(bytes), Append(out, EAcute))
              ELSE DecodeFrom(<<>>, bytes, Append(out, Replacement))
         ELSE IF b = ByteC3 THEN DecodeFrom(<<ByteC3>>, Tail(bytes), out)
         ELSE IF b = ByteA9
              THEN DecodeFrom(<<>>, Tail(bytes), Append(out, Replacement))
         ELSE DecodeFrom(<<>>, Tail(bytes), Append(out, b))

\* decode(value) without { stream: true }: nothing is held back between calls,
\* an incomplete character at either end of the chunk becomes U+FFFD
DecodeNoStream(p, bytes) ==
    LET d == DecodeFrom(<<>>, bytes, <<>>) IN
    [text |-> (IF d.pending = <<>> THEN d.text ELSE Append(d.text, Replacement)),
     pending |-> <<>>]

Decode(p, bytes) == DecodeFrom(p, bytes, <<>>)

----------------------------------------------------------------------------
(* JSON.parse, on the payloads the response body can hold *)

EmptyObject == "{}"
EmptyChoices == "{\"choices\":[]}"
ObjectText == "[object Object]"

Undefined == [t |-> "undefined", s |-> <<>>]

\* a JSON value that stands alone: a literal, a number, an empty object or a
\* string of letters; s is the text of the value, for a string its characters
ParseValue(ts) ==
    IF Len(ts) = 1 /\ ts[1] = "null"
        THEN [ok |-> TRUE, t |-> "null", s |-> ts]
    ELSE IF Len(ts) = 1 /\ ts[1] \in {"true", "false"}
        THEN [ok |-> TRUE, t |-> "boolean", s |-> ts]
    ELSE IF Len(ts) = 1 /\ ts[1] \in {"0", "5"}
        THEN [ok |-> TRUE, t |-> "number", s |-> ts]
    ELSE IF Len(ts) = 1 /\ ts[1] = EmptyObject
        THEN [ok |-> TRUE, t |-> "object", s |-> <<>>]
    ELSE IF /\ Len(ts) >= 2
            /\ ts[1] = QUOTE
            /\ ts[Len(ts)] = QUOTE
            /\ \A i \in 2..(Len(ts) - 1) : ts[i] \in Letters
        THEN [ok |-> TRUE, t |-> "string", s |-> SubSeq(ts, 2, Len(ts) - 1)]
    ELSE [ok |-> FALSE, t |-> "undefined", s |-> <<>>]

\* ok = FALSE is the SyntaxError.  choices: "one" when choices[0].delta is an
\* object, "empty" for choices: [], "absent" otherwise; content is delta.content
JSONparse(ts) ==
    IF ts = <<OPEN, CLOSE>>
        THEN [ok |-> TRUE, t |-> "object", choices |-> "one", content |-> Undefined]
    ELSE IF /\ Len(ts) >= 4
            /\ SubSeq(ts, 1, 2) = <<OPEN, KEY>>
            /\ ts[Len(ts)] = CLOSE
            /\ ParseValue(SubSeq(ts, 3, Len(ts) - 1)).ok
        THEN LET v == ParseValue(SubSeq(ts, 3, Len(ts) - 1)) IN
             [ok |-> TRUE, t |-> "object", choices |-> "one",
              content |-> [t |-> v.t, s |-> v.s]]
    ELSE IF ts = <<EmptyChoices>>
        THEN [ok |-> TRUE, t |-> "object", choices |-> "empty", content |-> Undefined]
    ELSE LET v == ParseValue(ts) IN
         [ok |-> v.ok, t |-> v.t, choices |-> "absent", content |-> Undefined]

\* parsed.choices?.[0]?.delta?.content: reading .choices of null throws
ContentOf(parsed) ==
    IF parsed.t = "null" THEN [threw |-> TRUE, value |-> Undefined]
    ELSE IF parsed.t = "object" /\ parsed.choices = "one"
        THEN [threw |-> FALSE, value |-> parsed.content]
    ELSE [threw |-> FALSE, value |-> Undefined]

\* if (content)
Truthy(v) ==
    CASE v.t = "string" -> v.s # <<>>
      [] v.t = "number" -> v.s # <<"0">>
      [] v.t = "boolean" -> v.s = <<"true">>
      [] v.t = "object" -> TRUE
      [] OTHER -> FALSE

\* assistantMessage += content: the text the operator + appends
ToText(v) ==
    CASE v.t = "string" -> v.s
      [] v.t = "object" -> <<ObjectText>>
      [] OTHER -> v.s

----------------------------------------------------------------------------
(* The body of the line loop, for one extracted line *)

\* the line body without the tests of lines 83-84: every line is parsed
LineOutcomeParsesAll(line) ==
    LET jsonStr == Trim(Slice(line, 6)) IN
    IF jsonStr = <<DoneToken>>
        THEN [act |-> "done", text |-> <<>>]
    ELSE LET parsed == JSONparse(jsonStr) IN
         IF ~parsed.ok \/ ContentOf(parsed).threw
             THEN [act |-> "pushback", text |-> <<>>]
         ELSE LET content == ContentOf(parsed).value IN
              IF Truthy(content)
                  THEN [act |-> "append", text |-> ToText(content)]
                  ELSE [act |-> "none", text |-> <<>>]

\* what lines 83-109 do with a line whose trailing \r is already stripped:
\* "skip" (continue, lines 83-84), "done" (the sentinel), "append" (a fragment),
\* "none" (parsed, nothing to append) or "pushback" (the catch)
LineOutcome(line) ==
    IF StartsWith(line, <<COLON>>) \/ Trim(line) = <<>>
        THEN [act |-> "skip", text |-> <<>>]
    ELSE IF ~StartsWith(line, DataPrefix)
        THEN [act |-> "skip", text |-> <<>>]
    ELSE LET jsonStr == Trim(Slice(line, 6)) IN
         IF jsonStr = <<DoneToken>>
             THEN [act |-> "done", text |-> <<>>]
         ELSE LET parsed == JSONparse(jsonStr) IN
              IF ~parsed.ok \/ ContentOf(parsed).threw
                  THEN [act |-> "pushback", text |-> <<>>]
              ELSE LET content == ContentOf(parsed).value IN
                   IF Truthy(content)
                       THEN [act |-> "append", text |-> ToText(content)]
                       ELSE [act |-> "none", text |-> <<>>]

\* an updater that adds the cumulative content as a new element
ReplaceLastAppends(prev, content) ==
    Append(prev, [role |-> "assistant", content |-> content])

\* the updater of lines 97-104: newMessages[newMessages.length - 1] = ...
ReplaceLast(prev, content) ==
    IF prev = <<>> THEN prev
    ELSE [prev EXCEPT ![Len(prev)] = [role |-> "assistant", content |-> content]]

\* line 82 without its test: the last character of every line is dropped
StripCRAlways(line) == SubSeq(line, 1, Len(line) - 1)

\* line 82
StripCR(line) ==
    IF EndsWith(line, <<CR>>) THEN SubSeq(line, 1, Len(line) - 1) ELSE line

\* the loop without the break of line 89: it goes on after the sentinel
RECURSIVE ExtractLinesPastDone(_)
ExtractLinesPastDone(st) ==
    LET newlineIndex == IndexOf(st.textBuffer, LF) IN
    IF newlineIndex = 0 THEN st
    ELSE LET line == StripCR(SubSeq(st.textBuffer, 1, newlineIndex - 1))
             rest == SubSeq(st.textBuffer, newlineIndex + 1, Len(st.textBuffer))
             o == LineOutcome(line)
         IN  CASE o.act = "done" ->
                    ExtractLinesPastDone(
                      [st EXCEPT !.textBuffer = rest, !.streamDone = TRUE,
                                 !.consumed = @ + 1])
               [] o.act = "pushback" ->
                    [st EXCEPT !.textBuffer = line \o <<LF>> \o rest]
               [] o.act = "append" ->
                    ExtractLinesPastDone(
                      [st EXCEPT !.textBuffer = rest,
                                 !.assistantMessage = @ \o o.text,
                                 !.messages =
                                     ReplaceLast(@, st.assistantMessage \o o.text),
                                 !.log = Append(@, [line |-> st.consumed + 1,
                                                    text |-> o.text]),
                                 !.consumed = @ + 1])
               [] OTHER ->
                    ExtractLinesPastDone([st EXCEPT !.textBuffer = rest,
                                                    !.consumed = @ + 1])

\* the loop with an empty catch: a line that does not parse is dropped and the
\* loop goes on
RECURSIVE ExtractLinesDropsBadLine(_)
ExtractLinesDropsBadLine(st) ==
    LET newlineIndex == IndexOf(st.textBuffer, LF) IN
    IF newlineIndex = 0 THEN st
    ELSE LET line == StripCR(SubSeq(st.textBuffer, 1, newlineIndex - 1))
             rest == SubSeq(st.textBuffer, newlineIndex + 1, Len(st.textBuffer))
             o == LineOutcome(line)
         IN  CASE o.act = "done" ->
                    [st EXCEPT !.textBuffer = rest, !.streamDone = TRUE,
                               !.consumed = @ + 1]
               [] o.act = "append" ->
                    ExtractLinesDropsBadLine(
                      [st EXCEPT !.textBuffer = rest,
                                 !.assistantMessage = @ \o o.text,
                                 !.messages =
                                     ReplaceLast(@, st.assistantMessage \o o.text),
                                 !.log = Append(@, [line |-> st.consumed + 1,
                                                    text |-> o.text]),
                                 !.consumed = @ + 1])
               [] OTHER ->
                    ExtractLinesDropsBadLine([st EXCEPT !.textBuffer = rest,
                                                        !.consumed = @ + 1])

\* the while loop of lines 78-110 on the locals st.textBuffer,
\* st.assistantMessage, st.streamDone and the list st.messages;
\* st.consumed and st.log record what it did
RECURSIVE ExtractLines(_)
ExtractLines(st) ==
    LET newlineIndex == IndexOf(st.textBuffer, LF) IN
    IF newlineIndex = 0 THEN st
    ELSE LET line == StripCR(SubSeq(st.textBuffer, 1, newlineIndex - 1))
             rest == SubSeq(st.textBuffer, newlineIndex + 1, Len(st.textBuffer))
             o == LineOutcome(line)
         IN  CASE o.act = "done" ->
                    [st EXCEPT !.textBuffer = rest, !.streamDone = TRUE,
                               !.consumed = @ + 1]
               [] o.act = "pushback" ->
                    [st EXCEPT !.textBuffer = line \o <<LF>> \o rest]
               [] o.act = "append" ->
                    ExtractLines(
                      [st EXCEPT !.textBuffer = rest,
                                 !.assistantMessage = @ \o o.text,
                                 !.messages =
                                     ReplaceLast(@, st.assistantMessage \o o.text),
                                 !.log = Append(@, [line |-> st.consumed + 1,
                                                    text |-> o.text]),
                                 !.consumed = @ + 1])
               [] OTHER ->
                    ExtractLines([st EXCEPT !.textBuffer = rest,
                                            !.consumed = @ + 1])

\* the chunk replaces the buffer instead of being appended to it
ProcessChunkNoCarry(st, value) ==
    LET d == Decode(st.pending, value) IN
    ExtractLines([st EXCEPT !.textBuffer = d.text, !.pending = d.pending])

\* lines 75-110: one chunk, decoded and run through the line loop
ProcessChunk(st, value) ==
    LET d == Decode(st.pending, value) IN
    ExtractLines([st EXCEPT !.textBuffer = @ \o d.text, !.pending = d.pending])

----------------------------------------------------------------------------
(* The response bodies the model feeds the loop *)

Str(cs) == <<QUOTE>> \o cs \o <<QUOTE>>
Payload(v) == <<OPEN, KEY>> \o v \o <<CLOSE>>
DataLine(p) == DataPrefix \o p

CoreKinds == {"A", "DONE"}

\* the kinds that appear only in bodies whose lines all end in CR LF
CrlfOnlyKinds == {"DONEcrlf", "blankcrlf", "truncatedcrlf"}

\* the kinds of the lines that end in CR LF
CrlfKinds == {"Acrlf"} \cup CrlfOnlyKinds

IgnoredKinds == {"comment", "blank", "spaces", "event", "nospace", "blankcrlf"}

\* data lines whose payload is a delta object without a non-empty string content
NoContentKinds ==
    {"absent", "empty", "number", "zero", "true", "false", "object", "nullcontent"}

\* data lines whose payload is valid JSON of another shape
OtherShapeKinds == {"null", "topnumber", "topstring", "nochoices", "emptychoices"}

EdgeKinds ==
    ({"B", "eacute", "Acrlf", "DONEpadded", "truncated", "cut"}
        \cup IgnoredKinds \cup NoContentKinds \cup OtherShapeKinds)
            \ CrlfOnlyKinds

Kinds == CoreKinds \cup EdgeKinds \cup CrlfOnlyKinds

\* the text of a line of each kind, without its line ending
LineText(k) ==
    CASE k = "A" -> DataLine(Payload(Str(<<"A">>)))
      [] k = "B" -> DataLine(Payload(Str(<<"B">>)))
      [] k = "eacute" -> DataLine(Payload(Str(<<EAcute>>)))
      [] k = "Acrlf" -> DataLine(Payload(Str(<<"A">>)))
      [] k = "cut" -> DataLine(Payload(Str(<<"A">>)))
      [] k = "DONE" -> DataLine(<<DoneToken>>)
      [] k = "DONEpadded" -> DataLine(<<SP, DoneToken, SP>>)
      [] k = "truncated" -> DataLine(<<OPEN, KEY, QUOTE, "A">>)
      [] k = "comment" -> <<COLON, "keep-alive">>
      [] k = "blank" -> <<>>
      [] k = "spaces" -> <<SP>>
      [] k = "event" -> <<"event", COLON, SP, "message">>
      [] k = "nospace" -> <<DataWord, COLON>> \o Payload(Str(<<"A">>))
      [] k = "absent" -> DataLine(<<OPEN, CLOSE>>)
      [] k = "empty" -> DataLine(Payload(Str(<<>>)))
      [] k = "number" -> DataLine(Payload(<<"5">>))
      [] k = "zero" -> DataLine(Payload(<<"0">>))
      [] k = "true" -> DataLine(Payload(<<"true">>))
      [] k = "false" -> DataLine(Payload(<<"false">>))
      [] k = "object" -> DataLine(Payload(<<EmptyObject>>))
      [] k = "nullcontent" -> DataLine(Payload(<<"null">>))
      [] k = "null" -> DataLine(<<"null">>)
      [] k = "topnumber" -> DataLine(<<"5">>)
      [] k = "topstring" -> DataLine(Str(<<"A">>))
      [] k = "nochoices" -> DataLine(<<EmptyObject>>)
      [] k = "emptychoices" -> DataLine(<<EmptyChoices>>)
      [] k = "DONEcrlf" -> DataLine(<<DoneToken>>)
      [] k = "blankcrlf" -> <<>>
      [] k = "truncatedcrlf" -> DataLine(<<OPEN, KEY, QUOTE, "A">>)

\* "cut" is a line the server never ends
LineEnding(k) ==
    IF k \in CrlfKinds THEN <<CR, LF>> ELSE IF k = "cut" THEN <<>> ELSE <<LF>>

\* UTF-8 encoding of a text
RECURSIVE Encode(_)
Encode(text) ==
    IF text = <<>> THEN <<>>
    ELSE (IF Head(text) = EAcute THEN <<ByteC3, ByteA9>> ELSE <<Head(text)>>)
             \o Encode(Tail(text))

WireLine(k) == Encode(LineText(k) \o LineEnding(k))

RECURSIVE Wire(_)
Wire(ks) == IF ks = <<>> THEN <<>> ELSE WireLine(Head(ks)) \o Wire(Tail(ks))

\* bodies of up to MaxLines lines, at most one of them outside CoreKinds;
\* only the last line can be one the server never ends
BodiesOfLength(n) ==
    [1..n -> CoreKinds]
        \cup { [ks EXCEPT ![i] = e] :
                   ks \in [1..n -> CoreKinds], i \in 1..n,
                   e \in EdgeKinds \ {"cut"} }
        \cup { [ks EXCEPT ![n] = "cut"] : ks \in [1..n -> CoreKinds] }

\* bodies of up to MaxLines lines that all end in CR LF: content lines and
\* sentinels, at most one line blank or truncated
CrlfBodiesOfLength(n) ==
    [1..n -> {"Acrlf", "DONEcrlf"}]
        \cup { [ks EXCEPT ![i] = e] :
                   ks \in [1..n -> {"Acrlf", "DONEcrlf"}], i \in 1..n,
                   e \in {"blankcrlf", "truncatedcrlf"} }

\* a line that does not parse with, behind it, a line holding a two-byte
\* character
SplitCharBodies == {<<"truncated", "eacute">>}

Bodies ==
    UNION { BodiesOfLength(n) \cup CrlfBodiesOfLength(n) : n \in 0..MaxLines }
        \cup SplitCharBodies

Inputs == {<<>>, <<SP>>, <<"h", "i">>}

Message(role, content) == [role |-> role, content |-> content]

----------------------------------------------------------------------------
(* sendMessage *)

TypeOK ==
    /\ loading \in BOOLEAN
    /\ streamDone \in BOOLEAN
    /\ eof \in BOOLEAN
    /\ pc \in {"idle", "getSession", "fetch", "errorJson", "read", "getUser",
               "insert"}
    /\ pos \in 0..Len(stream)
    /\ mounted \in BOOLEAN
    /\ outcome \in {"none", "running", "abandoned", "no-session", "session-failed",
                    "fetch-failed", "http-error", "read-failed", "saved",
                    "save-failed", "unsaved"}

\* no image was asked for
ImageAtRest ==
    /\ imagePrompt = <<>>
    /\ generatingImage = FALSE
    /\ imagePc = "idle"
    /\ imageCalls = 0

\* no body is being compared
LoopsAtRest ==
    /\ internalAssistantMessage = <<>>
    /\ internalMessages = <<>>
    /\ wholeLines = TRUE
    /\ manyChunks = FALSE

\* no toast of AvatarCustomizer has been shown
NoToast == [kind |-> "none", text |-> "", count |-> 0]

\* AvatarCustomizer as it is constructed
AvatarAtRest ==
    /\ prompt = <<>>
    /\ generating = FALSE
    /\ previewUrl = FALSE
    /\ uploadedPhotos = <<>>
    /\ avatarToast = NoToast
    /\ saves = 0

\* no panel is in use
PanelsAtRest ==
    /\ panel = "tasks"
    /\ table = <<>>
    /\ shown = <<>>
    /\ showAdd = FALSE
    /\ formLoading = FALSE
    /\ newItem = <<>>
    /\ calls = {}
    /\ notices = <<>>
    /\ started = 0
    /\ created = 0
    /\ toggles = <<>>
    /\ failed = FALSE

\* the chat is not in use
ChatAtRest ==
    /\ messages = <<>>
    /\ input = <<>>
    /\ loading = FALSE
    /\ mounted = TRUE
    /\ pc = "idle"
    /\ userMessage = Message("user", <<>>)
    /\ textBuffer = <<>>
    /\ assistantMessage = <<>>
    /\ streamDone = FALSE
    /\ pending = <<>>
    /\ toasts = <<>>
    /\ inserts = <<>>
    /\ lines = <<>>
    /\ stream = <<>>
    /\ pos = 0
    /\ eof = FALSE
    /\ consumed = 0
    /\ log = <<>>
    /\ carried = FALSE
    /\ before = <<>>
    /\ outcome = "none"

Init ==
    /\ messages = <<>>
    /\ input \in Inputs
    /\ loading = FALSE
    /\ mounted = TRUE
    /\ pc = "idle"
    /\ userMessage = Message("user", <<>>)
    /\ textBuffer = <<>>
    /\ assistantMessage = <<>>
    /\ streamDone = FALSE
    /\ pending = <<>>
    /\ toasts = <<>>
    /\ inserts = <<>>
    /\ lines = <<>>
    /\ stream = <<>>
    /\ pos = 0
    /\ eof = FALSE
    /\ consumed = 0
    /\ log = <<>>
    /\ carried = FALSE
    /\ before = <<>>
    /\ outcome = "none"
    /\ ImageAtRest
    /\ LoopsAtRest
    /\ PanelsAtRest
    /\ AvatarAtRest

\* the locals of a call and its reader are gone once the call has returned
LocalsGone ==
    /\ textBuffer' = <<>>
    /\ assistantMessage' = <<>>
    /\ streamDone' = FALSE
    /\ pending' = <<>>
    /\ lines' = <<>>
    /\ stream' = <<>>
    /\ pos' = 0
    /\ eof' = FALSE
    /\ consumed' = 0
    /\ log' = <<>>
    /\ carried' = FALSE

LocalsUnchanged ==
    UNCHANGED <<textBuffer, assistantMessage, streamDone, pending, lines,
                stream, pos, eof, consumed, log, carried>>

\* a state setter of lines 15-17: React drops the update of a component it
\* has torn down
SetState(current, next) == IF mounted THEN next ELSE current

\* finally { setLoading(false) } and the return
Finally(how) ==
    /\ loading' = SetState(loading, FALSE)
    /\ UNCHANGED mounted
    /\ pc' = "idle"
    /\ outcome' = how
    /\ LocalsGone

\* the catch without its setMessages
CatchNoRollback(message, how) ==
    /\ toasts' = Append(toasts, message)
    /\ messages' = messages
    /\ Finally(how)

\* catch (error): toast.error, setMessages(prev => prev.slice(0, -1))
Catch(message, how) ==
    /\ toasts' = Append(toasts, message)
    /\ messages' = SetState(messages, SubSeq(messages, 1, Len(messages) - 1))
    /\ Finally(how)

\* line 25, the early return: the call does nothing
SendMessageReturns ==
    /\ mounted
    /\ Trim(input) = <<>> \/ loading
    /\ UNCHANGED vars

\* the start of a turn without setLoading(true)
SendMessageNoLoading ==
    /\ mounted
    /\ Trim(input) # <<>>
    /\ ~loading
    /\ userMessage' = Message("user", input)
    /\ messages' = Append(messages, Message("user", input))
    /\ input' = <<>>
    /\ loading' = loading
    /\ pc' = "getSession"
    /\ before' = messages
    /\ outcome' = "running"
    /\ LocalsUnchanged
    /\ UNCHANGED <<mounted, toasts, inserts>>
    /\ UNCHANGED outsideChat

\* lines 24-30: the handler of the send button and of the Enter key
SendMessage ==
    /\ mounted
    /\ Trim(input) # <<>>
    /\ ~loading
    /\ userMessage' = Message("user", input)
    /\ messages' = Append(messages, Message("user", input))
    /\ input' = <<>>
    /\ loading' = TRUE
    /\ pc' = "getSession"
    /\ before' = messages
    /\ outcome' = "running"
    /\ LocalsUnchanged
    /\ UNCHANGED <<mounted, toasts, inserts>>
    /\ UNCHANGED outsideChat

\* line 33: getSession rejects
GetSessionFails ==
    /\ pc = "getSession"
    /\ Catch("Failed to get session", "session-failed")
    /\ UNCHANGED <<input, userMessage, inserts, before>>
    /\ UNCHANGED outsideChat

\* lines 33-39, with a token
GetSessionToken ==
    /\ pc = "getSession"
    /\ pc' = "fetch"
    /\ LocalsUnchanged
    /\ UNCHANGED <<messages, input, loading, mounted, userMessage, toasts, inserts,
                   before, outcome>>
    /\ UNCHANGED outsideChat

\* lines 33-39, without a token: toast and return through finally
GetSessionNone ==
    /\ pc = "getSession"
    /\ toasts' = Append(toasts, "Please sign in to chat")
    /\ Finally("no-session")
    /\ UNCHANGED <<messages, input, userMessage, inserts, before>>
    /\ UNCHANGED outsideChat

\* line 43: fetch rejects
FetchFails ==
    /\ pc = "fetch"
    /\ Catch("Failed to fetch", "fetch-failed")
    /\ UNCHANGED <<input, userMessage, inserts, before>>
    /\ UNCHANGED outsideChat

\* lines 57-58: the response is not ok
FetchNotOk ==
    /\ pc = "fetch"
    /\ pc' = "errorJson"
    /\ LocalsUnchanged
    /\ UNCHANGED <<messages, input, loading, mounted, userMessage, toasts, inserts,
                   before, outcome>>
    /\ UNCHANGED outsideChat

\* lines 58-59 and the catch: errorData.error || "Failed to get response",
\* or the SyntaxError of response.json() on a body that is not JSON
ErrorJson ==
    /\ pc = "errorJson"
    /\ \E message \in {"Rate limit exceeded", "Failed to get response",
                       "Unexpected end of JSON input"} :
           Catch(message, "http-error")
    /\ UNCHANGED <<input, userMessage, inserts, before>>
    /\ UNCHANGED outsideChat

\* lines 62-71: the response is ok; its body is any of bodies, or missing
FetchOkFrom(bodies) ==
    /\ pc = "fetch"
    /\ \E ks \in bodies, reader \in BOOLEAN :
           /\ lines' = (IF reader THEN ks ELSE <<>>)
           /\ stream' = (IF reader THEN Wire(ks) ELSE <<>>)
           /\ pc' = (IF reader THEN "read" ELSE "getUser")
    /\ assistantMessage' = <<>>
    /\ streamDone' = FALSE
    /\ textBuffer' = <<>>
    /\ pending' = <<>>
    /\ pos' = 0
    /\ eof' = FALSE
    /\ consumed' = 0
    /\ log' = <<>>
    /\ carried' = FALSE
    /\ messages' = SetState(messages, Append(messages, Message("assistant", <<>>)))
    /\ UNCHANGED <<input, loading, mounted, userMessage, toasts, inserts, before,
                   outcome>>
    /\ UNCHANGED outsideChat

FetchOk == FetchOkFrom(Bodies)

Locals ==
    [textBuffer |-> textBuffer, assistantMessage |-> assistantMessage,
     streamDone |-> streamDone, messages |-> messages, pending |-> pending,
     consumed |-> consumed, log |-> log]

\* the read loop with while (reader): it does not look at streamDone
ReadChunkIgnoresDone ==
    /\ pc = "read"
    /\ \E n \in 1..(Len(stream) - pos) :
           /\ pos' = pos + n
           /\ \E st \in {ProcessChunk(Locals, SubSeq(stream, pos + 1, pos + n))} :
                  /\ textBuffer' = st.textBuffer
                  /\ assistantMessage' = st.assistantMessage
                  /\ streamDone' = st.streamDone
                  /\ messages' = SetState(messages, st.messages)
                  /\ pending' = st.pending
                  /\ consumed' = st.consumed
                  /\ log' = st.log
                  /\ carried' = (textBuffer # <<>>)
                  /\ pc' = "read"
    /\ UNCHANGED <<input, loading, mounted, userMessage, toasts, inserts, lines,
                   stream, eof, before, outcome>>
    /\ UNCHANGED outsideChat

\* lines 72-110: reader.read() delivers the next n wire tokens
ReadChunk ==
    /\ pc = "read"
    /\ \E n \in 1..(Len(stream) - pos) :
           /\ pos' = pos + n
           /\ \E st \in {ProcessChunk(Locals, SubSeq(stream, pos + 1, pos + n))} :
                  /\ textBuffer' = st.textBuffer
                  /\ assistantMessage' = st.assistantMessage
                  /\ streamDone' = st.streamDone
                  /\ messages' = SetState(messages, st.messages)
                  /\ pending' = st.pending
                  /\ consumed' = st.consumed
                  /\ log' = st.log
                  /\ carried' = (textBuffer # <<>>)
                  /\ pc' = (IF st.streamDone THEN "getUser" ELSE "read")
    /\ UNCHANGED <<input, loading, mounted, userMessage, toasts, inserts, lines,
                   stream, eof, before, outcome>>
    /\ UNCHANGED outsideChat

\* at the end of the body the rest of the buffer is run through the loop as
\* a last line
ReadDoneFlushes ==
    /\ pc = "read"
    /\ pos = Len(stream)
    /\ eof' = TRUE
    /\ pc' = "getUser"
    /\ \E st \in {ExtractLines([Locals EXCEPT !.textBuffer = @ \o <<LF>>])} :
           /\ textBuffer' = st.textBuffer
           /\ assistantMessage' = st.assistantMessage
           /\ streamDone' = st.streamDone
           /\ messages' = SetState(messages, st.messages)
           /\ consumed' = st.consumed
           /\ log' = st.log
    /\ UNCHANGED <<input, loading, mounted, userMessage, pending, toasts, inserts,
                   lines, stream, pos, carried, before, outcome>>
    /\ UNCHANGED outsideChat

\* the read loop without its exit at line 73: the end of the body is noted and
\* the loop reads again
ReadDoneReadsAgain ==
    /\ pc = "read"
    /\ pos = Len(stream)
    /\ eof' = TRUE
    /\ pc' = "read"
    /\ UNCHANGED <<messages, input, loading, mounted, userMessage, textBuffer,
                   assistantMessage, streamDone, pending, toasts, inserts,
                   lines, stream, pos, consumed, log, carried, before,
                   outcome>>
    /\ UNCHANGED outsideChat

\* lines 72-73: reader.read() returns done at the end of the body
ReadDone ==
    /\ pc = "read"
    /\ pos = Len(stream)
    /\ eof' = TRUE
    /\ pc' = "getUser"
    /\ UNCHANGED <<messages, input, loading, mounted, userMessage, textBuffer,
                   assistantMessage, streamDone, pending, toasts, inserts,
                   lines, stream, pos, consumed, log, carried, before,
                   outcome>>
    /\ UNCHANGED outsideChat

\* line 72: reader.read() rejects
ReadFails ==
    /\ pc = "read"
    /\ Catch("network error", "read-failed")
    /\ UNCHANGED <<input, userMessage, inserts, before>>
    /\ UNCHANGED outsideChat

\* the step without the test of line 115: the rows are written for no user
GetUserNoneInserts ==
    /\ pc = "getUser"
    /\ inserts' = Append(inserts, <<Message("user", userMessage.content),
                                    Message("assistant", assistantMessage)>>)
    /\ Finally("unsaved")
    /\ UNCHANGED <<messages, input, userMessage, toasts, before>>
    /\ UNCHANGED outsideChat

\* lines 114-115, no user: nothing is saved
GetUserNone ==
    /\ pc = "getUser"
    /\ Finally("unsaved")
    /\ UNCHANGED <<messages, input, userMessage, toasts, inserts, before>>
    /\ UNCHANGED outsideChat

\* lines 114-115, a user
GetUser ==
    /\ pc = "getUser"
    /\ pc' = "insert"
    /\ LocalsUnchanged
    /\ UNCHANGED <<messages, input, loading, mounted, userMessage, toasts, inserts,
                   before, outcome>>
    /\ UNCHANGED outsideChat

\* lines 116-119: the insert is sent and resolves with { error }; the code
\* does not read the result
InsertError ==
    /\ pc = "insert"
    /\ inserts' = Append(inserts, <<Message("user", userMessage.content),
                                    Message("assistant", assistantMessage)>>)
    /\ Finally("save-failed")
    /\ UNCHANGED <<messages, input, userMessage, toasts, before>>
    /\ UNCHANGED outsideChat

\* React tears the component down (the user leaves the chat); nothing in the
\* component runs on unmount, the running call and its reader are not told
Unmount ==
    /\ mounted
    /\ mounted' = FALSE
    /\ outcome' = (IF pc = "read" THEN "abandoned" ELSE outcome)
    /\ UNCHANGED <<messages, input, loading, pc, userMessage, textBuffer,
                   assistantMessage, streamDone, pending, toasts, inserts,
                   lines, stream, pos, eof, consumed, log, carried, before>>
    /\ UNCHANGED outsideChat

\* lines 116-119: the insert is sent and resolves without an error
Insert ==
    /\ pc = "insert"
    /\ inserts' = Append(inserts, <<Message("user", userMessage.content),
                                    Message("assistant", assistantMessage)>>)
    /\ Finally("saved")
    /\ UNCHANGED <<messages, input, userMessage, toasts, before>>
    /\ UNCHANGED outsideChat

Next ==
    \/ SendMessage
    \/ SendMessageReturns
    \/ GetSessionToken
    \/ GetSessionNone
    \/ GetSessionFails
    \/ FetchFails
    \/ FetchNotOk
    \/ ErrorJson
    \/ FetchOk
    \/ ReadChunk
    \/ ReadDone
    \/ ReadFails
    \/ GetUserNone
    \/ GetUser
    \/ Insert
    \/ InsertError

\* the component stays mounted
Spec == Init /\ [][Next]_vars

\* the component can be torn down at any moment
NextTeardown == Next \/ Unmount

SpecTeardown == Init /\ [][NextTeardown]_vars

\* every await of a running call other than read() settles, one way or the
\* other: the session, the response, the error body, the user, the insert
Settles ==
    \/ GetSessionToken
    \/ GetSessionNone
    \/ GetSessionFails
    \/ FetchFails
    \/ FetchNotOk
    \/ ErrorJson
    \/ FetchOk
    \/ GetUserNone
    \/ GetUser
    \/ Insert
    \/ InsertError

\* reader.read() resolves: the steps of ReadChunk and ReadDone, told by what
\* they do to the reader (tokens delivered, or done at the end of the body)
ReadResolves ==
    /\ pc = "read"
    /\ \/ \E n \in 1..(Len(stream) - pos) : pos' = pos + n /\ eof' = eof
       \/ pos = Len(stream) /\ pos' = pos /\ eof' = TRUE

\* the promises of a turn settle, and a body that is a finite sequence of
\* chunks ended by done is delivered: a read() that does not reject resolves
FairSpec ==
    Init /\ [][Next]_vars /\ WF_vars(Settles) /\ WF_<<pos, eof>>(ReadResolves)

----------------------------------------------------------------------------
(* What the response body means, line by line *)

\* the kinds whose payload is a delta object with a non-empty string content
FragmentKinds == {"A", "B", "eacute", "Acrlf"}

\* the content fragment a line of kind k carries
Fragment(k) ==
    CASE k \in {"A", "Acrlf"} -> <<"A">>
      [] k = "B" -> <<"B">>
      [] k = "eacute" -> <<EAcute>>
      [] OTHER -> <<>>

SentinelKinds == {"DONE", "DONEpadded", "DONEcrlf"}

\* every line ended by a newline, every data payload a delta object whose
\* content is a string or absent, or the sentinel
WellFormedKinds ==
    FragmentKinds \cup SentinelKinds \cup IgnoredKinds \cup {"absent", "empty"}

WellFormed == \A i \in 1..Len(lines) : lines[i] \in WellFormedKinds

\* the wire position of the newline that ends line i
EndPos(i) == Len(Wire(SubSeq(lines, 1, i)))

\* the newline of line i has been delivered
Delivered(i) == lines[i] # "cut" /\ EndPos(i) <= pos

\* the loop stops extracting at a line of kind k (sentinel or push-back)
Stops(k) == LineOutcome(LineText(k)).act \in {"done", "pushback"}

\* no line before line i stops the loop
Reached(i) == \A j \in 1..(i - 1) : ~Stops(lines[j])

\* the read loop is running or has ended without a failure
Streaming == pc \in {"read", "getUser", "insert"}

\* the read loop has ended without a failure
LoopEnded == pc \in {"getUser", "insert"}

LastContent == messages[Len(messages)].content

\* the locals as lines 64-66 create them, under the placeholder of line 69
FreshLocals ==
    [textBuffer |-> <<>>, assistantMessage |-> <<>>, streamDone |-> FALSE,
     messages |-> <<Message("assistant", <<>>)>>, pending |-> <<>>,
     consumed |-> 0, log |-> <<>>]

\* the loop run on the whole body delivered as a single chunk
OneChunk == ProcessChunk(FreshLocals, stream)

----------------------------------------------------------------------------
(* Claims *)

\* C1: chunk-boundary invariance.  For a well-formed body, however read()
\* cuts it into chunks, the loop ends with the content that the same body
\* gives when it arrives as one chunk; so every cutting gives the same content.
C1_ChunkBoundaryInvariance ==
    (LoopEnded /\ WellFormed) =>
        /\ assistantMessage = OneChunk.assistantMessage
        /\ LastContent = OneChunk.assistantMessage

\* C1 witness: a well-formed body of two lines or more whose loop has ended
\* with content, the last chunk having completed a line begun in an earlier one
C1_Witness ==
    /\ LoopEnded
    /\ WellFormed
    /\ Len(lines) >= 2
    /\ carried
    /\ assistantMessage # <<>>

\* C2: a data line with a string content that the loop reaches (no sentinel
\* and no pushed-back line before it) has its fragment appended exactly once:
\* not before its newline is delivered, and by the end of the chunk that
\* delivers it, whatever the chunk boundaries inside the line; it is consumed,
\* not pushed back, and no error is shown.
C2_SplitLineAppendedOnce ==
    Streaming =>
        \A i \in 1..Len(lines) :
            (lines[i] \in FragmentKinds /\ Reached(i)) =>
                LET hits == {j \in 1..Len(log) : log[j].line = i} IN
                IF Delivered(i)
                THEN /\ Cardinality(hits) = 1
                     /\ \A j \in hits : log[j].text = Fragment(lines[i])
                     /\ consumed >= i
                     /\ toasts = <<>>
                ELSE hits = {}

\* C2 witness: the only line of the body arrived in two chunks or more and its
\* fragment is in the content once
C2_Witness ==
    /\ pc = "read"
    /\ Len(lines) = 1
    /\ lines[1] \in FragmentKinds
    /\ carried
    /\ log = <<[line |-> 1, text |-> Fragment(lines[1])]>>
    /\ assistantMessage = Fragment(lines[1])

\* the fragments of the first n lines, in body order
RECURSIVE Fragments(_, _)
Fragments(ks, n) ==
    IF n = 0 THEN <<>> ELSE Fragments(ks, n - 1) \o Fragment(ks[n])

\* C3: while the loop runs and after it, the assembled content and the
\* content of the displayed last message are the fragments of the lines
\* consumed so far, in body order, each once.
C3_ContentIsConcatenation ==
    Streaming =>
        /\ assistantMessage = Fragments(lines, consumed)
        /\ LastContent = assistantMessage

\* the part of C3 the code keeps: the equality holds as long as no consumed
\* line has a content that is truthy and not a string
C3_HoldsForStringContents ==
    (Streaming /\ \A i \in 1..consumed : lines[i] \notin {"number", "true", "object"}) =>
        /\ assistantMessage = Fragments(lines, consumed)
        /\ LastContent = assistantMessage

\* C4: when reader.read() rejects after content was assembled, the call
\* returns, the displayed list keeps the assistant message with that content,
\* and one error is shown.
C4_MidStreamFailureKeepsContent ==
    [][(pc = "read" /\ pc' = "idle" /\ assistantMessage # <<>>) =>
           /\ messages' = messages
           /\ Len(toasts') = Len(toasts) + 1]_vars

\* the fragments the log holds for lines after line i
LoggedAfter(i) == {j \in 1..Len(log) : log[j].line > i}

\* the texts of the first n appends, in order
RECURSIVE LogText(_)
LogText(n) == IF n = 0 THEN <<>> ELSE LogText(n - 1) \o log[n].text

\* C5: once the loop has processed a sentinel line (payload [DONE] after
\* trimming), the stream is done: the line is the last one consumed, also when
\* later lines arrived in the same chunk, nothing after it is appended, and
\* the loop does not read again.
C5_SentinelTerminates ==
    Streaming =>
        /\ \A i \in 1..Len(lines) :
               (lines[i] \in SentinelKinds /\ Reached(i) /\ Delivered(i)) =>
                   /\ streamDone
                   /\ consumed = i
                   /\ LoggedAfter(i) = {}
                   /\ assistantMessage = LogText(Len(log))
                   /\ LastContent = assistantMessage
        /\ streamDone => pc # "read"

\* C5 witness: the sentinel came first and a data line after it was delivered
\* with it; the loop has ended with nothing appended
C5_Witness ==
    /\ LoopEnded
    /\ streamDone
    /\ Len(lines) >= 2
    /\ lines[1] \in SentinelKinds
    /\ lines[2] \in FragmentKinds
    /\ pos >= EndPos(2)
    /\ assistantMessage = <<>>
    /\ LastContent = <<>>

\* C6: from the state in which the response is known not to be ok, no
\* placeholder has been added and nothing has been read, and the only step is
\* the return: one error shown, the list as it was before the call, nothing
\* saved, loading false.
C6_NotOkRollsBack ==
    [][pc = "errorJson" =>
           /\ messages = Append(before, userMessage)
           /\ stream = <<>>
           /\ pos = 0
           /\ pc' = "idle"
           /\ messages' = before
           /\ Len(toasts') = Len(toasts) + 1
           /\ inserts' = inserts
           /\ ~loading']_vars

\* C6 witness: the call has returned after a response that was not ok
C6_Witness ==
    /\ outcome = "http-error"
    /\ pc = "idle"
    /\ messages = before
    /\ Len(toasts) = 1
    /\ ~loading

\* C7: a data line whose delta has no content, an empty content or a content
\* that is not a string is consumed without a fragment and without an error.
C7_NoFragmentWithoutStringContent ==
    Streaming =>
        \A i \in 1..Len(lines) :
            (lines[i] \in NoContentKinds /\ Reached(i) /\ Delivered(i)) =>
                /\ consumed >= i
                /\ {j \in 1..Len(log) : log[j].line = i} = {}
                /\ toasts = <<>>

\* the part of C7 the code keeps: absent, empty, 0, false and null contents
C7_FalsyContentGivesNoFragment ==
    Streaming =>
        \A i \in 1..Len(lines) :
            (/\ lines[i] \in {"absent", "empty", "zero", "false", "nullcontent"}
             /\ Reached(i)
             /\ Delivered(i)) =>
                /\ consumed >= i
                /\ {j \in 1..Len(log) : log[j].line = i} = {}
                /\ toasts = <<>>

\* a body without its ignored lines
RECURSIVE WithoutIgnored(_)
WithoutIgnored(ks) ==
    IF ks = <<>> THEN <<>>
    ELSE (IF Head(ks) \in IgnoredKinds THEN <<>> ELSE <<Head(ks)>>)
             \o WithoutIgnored(Tail(ks))

\* the wire tokens delivered and not yet taken out of the buffer as lines
Unconsumed == SubSeq(stream, EndPos(consumed) + 1, pos)

\* the kinds of data lines the catch of lines 106-109 puts back
PushBackKinds == {k \in Kinds : LineOutcome(LineText(k)).act = "pushback"}

\* the first delivered line that was put back, 0 when there is none
BlockedAt ==
    LET is == {i \in 1..Len(lines) :
                   lines[i] \in PushBackKinds /\ Reached(i) /\ Delivered(i)}
    IN  IF is = {} THEN 0 ELSE CHOOSE i \in is : \A j \in is : i <= j

\* the wire form of what the buffer and the decoder hold: the delivered text
\* after the consumed lines; a line that was put back has lost its \r
Held ==
    IF BlockedAt = 0 THEN Unconsumed
    ELSE Encode(LineText(lines[BlockedAt]) \o <<LF>>)
             \o SubSeq(stream, EndPos(BlockedAt) + 1, pos)

\* C8: a complete line that is blank, a comment or without the prefix
\* "data: " is taken out of the buffer when the loop reaches it (the buffer
\* holds exactly the delivered text after the consumed lines), appends
\* nothing, and the loop ends with the content and the done flag of the same
\* body without these lines.
C8_IgnoredLinesHaveNoEffect ==
    /\ Streaming =>
           /\ Encode(textBuffer) \o pending = Held
           /\ \A i \in 1..Len(lines) :
                  (lines[i] \in IgnoredKinds /\ Reached(i) /\ Delivered(i)) =>
                      /\ consumed >= i
                      /\ {j \in 1..Len(log) : log[j].line = i} = {}
    /\ LoopEnded =>
           LET plain == ProcessChunk(FreshLocals, Wire(WithoutIgnored(lines))) IN
           /\ assistantMessage = plain.assistantMessage
           /\ streamDone = plain.streamDone

\* C8 witness: an ignored line between two data lines, the loop ended with
\* both fragments
C8_Witness ==
    /\ LoopEnded
    /\ Len(lines) = 3
    /\ lines[1] \in FragmentKinds
    /\ lines[2] \in IgnoredKinds
    /\ lines[3] \in FragmentKinds
    /\ consumed = 3
    /\ assistantMessage = Fragment(lines[1]) \o Fragment(lines[3])

\* C9: when read() returns done while the buffer still holds text, nothing is
\* appended and no error is shown, and the call goes on as after any other
\* end of the loop: the list is not touched again, and with a user the two
\* rows are inserted with the assembled content.
C9_LeftoverAtEndIsDropped ==
    [][/\ (pc = "read" /\ eof' /\ textBuffer # <<>>) =>
              /\ pc' = "getUser"
              /\ assistantMessage' = assistantMessage
              /\ messages' = messages
              /\ toasts' = toasts
       /\ (eof /\ textBuffer # <<>>) =>
              /\ toasts' = toasts
              /\ messages' = messages
              /\ LastContent = assistantMessage
              /\ pc = "getUser" => (pc' = "insert" \/ outcome' = "unsaved")
              /\ pc = "insert" =>
                     /\ outcome' \in {"saved", "save-failed"}
                     /\ inserts' = Append(inserts,
                            <<userMessage, Message("assistant", assistantMessage)>>)
      ]_vars

\* C9 witness: the body ended inside a line, the loop has ended and the rows
\* are about to be inserted
C9_Witness ==
    /\ pc = "insert"
    /\ eof
    /\ textBuffer # <<>>
    /\ toasts = <<>>
    /\ LastContent = assistantMessage

\* C10: after the sentinel or the end of the body has been seen, the call
\* never reads again, and neither the assembled content nor the displayed
\* list changes until the call returns.
C10_DoneIsAbsorbing ==
    [][(streamDone \/ eof) =>
           /\ pc' # "read"
           /\ messages' = messages
           /\ pc' # "idle" =>
                  (pos' = pos /\ assistantMessage' = assistantMessage)]_vars

\* C10 witness: the sentinel was seen before the whole body was delivered and
\* the call has moved on to the insert
C10_Witness ==
    /\ pc = "insert"
    /\ streamDone
    /\ ~eof
    /\ pos < Len(stream)

\* C11: once the component has been torn down during the read loop, the
\* abandoned call takes in no further chunk and has no further side effect:
\* no error is shown and no chat_messages insert is issued.
C11_AbandonedStreamStops ==
    [][outcome = "abandoned" =>
           /\ pos' = pos
           /\ assistantMessage' = assistantMessage \/ pc' = "idle"
           /\ toasts' = toasts
           /\ inserts' = inserts]_vars

\* what the code keeps of C11: the torn-down component's state is not written
C11_TornDownStateIsKept ==
    [][~mounted => (messages' = messages /\ input' = input /\ loading' = loading)]_vars

\* a turn is running: sendMessage is suspended at one of its awaits
TurnRunning == pc # "idle"

\* C12: one stream at a time.  loading is true exactly while a turn runs; a
\* turn can start only when loading is false and the input is not blank; and
\* while a turn runs a call of sendMessage cannot start another one: it takes
\* the early return and changes nothing.
C12_OneStreamAtATime ==
    /\ loading <=> TurnRunning
    /\ ENABLED SendMessage => (~loading /\ Trim(input) # <<>> /\ ~TurnRunning)
    /\ TurnRunning => (~ENABLED SendMessage /\ ENABLED SendMessageReturns)

\* C12 witness: the stream of the running turn has delivered content, and a
\* call of sendMessage now returns at once
C12_Witness ==
    /\ pc = "read"
    /\ pos > 0
    /\ assistantMessage # <<>>
    /\ loading
    /\ ENABLED SendMessageReturns
    /\ ~ENABLED SendMessage

\* the same line with the line ending \n
LFKind(k) ==
    CASE k = "Acrlf" -> "A"
      [] k = "DONEcrlf" -> "DONE"
      [] k = "blankcrlf" -> "blank"
      [] k = "truncatedcrlf" -> "truncated"
      [] OTHER -> k

\* the same body with every line ending \n
LFBody(ks) == [i \in 1..Len(ks) |-> LFKind(ks[i])]

HasCrlf == \E i \in 1..Len(lines) : lines[i] \in CrlfKinds

AllCrlf == lines # <<>> /\ \A i \in 1..Len(lines) : lines[i] \in CrlfKinds

\* C13: line-ending independence.  A body with lines ending in CR LF, however
\* it is cut into chunks (also between a \r and its \n), ends the loop with
\* the content, the done flag and the number of consumed lines of the same
\* body with every line ending in LF; and while a \r has arrived without its
\* \n the line is not yet processed.
C13_LineEndingIndependence ==
    /\ (LoopEnded /\ HasCrlf) =>
           LET lf == ProcessChunk(FreshLocals, Wire(LFBody(lines))) IN
           /\ assistantMessage = lf.assistantMessage
           /\ LastContent = lf.assistantMessage
           /\ streamDone = lf.streamDone
           /\ consumed = lf.consumed
    /\ (pc = "read" /\ HasCrlf) =>
           \A i \in 1..Len(lines) :
               (lines[i] \in CrlfKinds /\ pos = EndPos(i) - 1) =>
                   /\ consumed < i
                   /\ EndsWith(textBuffer, <<CR>>)

\* C13 witness: every line ends in CR LF; the first line has been processed
\* and its content appended, and a chunk has ended between the \r and the \n
\* of the second line
C13_Witness ==
    /\ pc = "read"
    /\ AllCrlf
    /\ Len(lines) >= 2
    /\ lines[2] = "Acrlf"
    /\ pos = EndPos(2) - 1
    /\ consumed = 1
    /\ EndsWith(textBuffer, <<CR>>)
    /\ assistantMessage = <<"A">>

\* the payload of a data line of kind k, as line 86 takes it
PayloadOf(k) == Trim(Slice(LineText(k), 6))

\* the kinds of data lines whose payload JSON.parse rejects
ParseFailKinds ==
    {k \in PushBackKinds : ~JSONparse(PayloadOf(k)).ok}

\* the first line of the buffer, as lines 78-79 would extract it
FirstLine == SubSeq(textBuffer, 1, IndexOf(textBuffer, LF) - 1)

\* C14: after a delivered data line failed to parse, the buffer starts with
\* that line and a newline, followed by exactly the text delivered after it;
\* no line after it has been extracted, also when later lines arrived in the
\* same chunk; the content holds only what the lines before it appended; no
\* error is shown; and the line is the first one the next chunk's loop
\* extracts.
C14_FailedLineIsPutBack ==
    (Streaming /\ BlockedAt > 0 /\ lines[BlockedAt] \in ParseFailKinds) =>
        LET line == LineText(lines[BlockedAt]) IN
        /\ StartsWith(textBuffer, line \o <<LF>>)
        /\ Encode(textBuffer) \o pending =
               Encode(line \o <<LF>>) \o SubSeq(stream, EndPos(BlockedAt) + 1, pos)
        /\ consumed = BlockedAt - 1
        /\ LoggedAfter(BlockedAt - 1) = {}
        /\ assistantMessage = LogText(Len(log))
        /\ ~streamDone
        /\ toasts = <<>>
        /\ FirstLine = line
        /\ LineOutcome(FirstLine).act = "pushback"

\* C14 witness: the second of three lines failed to parse after the first had
\* appended its content, the third line has arrived behind it, and the loop is
\* waiting for the next chunk
C14_Witness ==
    /\ pc = "read"
    /\ Len(lines) = 3
    /\ lines[1] \in FragmentKinds
    /\ lines[2] \in ParseFailKinds
    /\ lines[3] \in FragmentKinds
    /\ pos = EndPos(3)
    /\ consumed = 1
    /\ assistantMessage = Fragment(lines[1])
    /\ Len(textBuffer) > Len(LineText(lines[2])) + 1

\* C15, as stated: once a delivered line has been put back, every later chunk
\* leaves the consumed lines, the content, the displayed list and the done
\* flag as they are, finds the same line first in the buffer and fails on it
\* again, and makes the buffer longer; the loop ends only by the end of the
\* body or a failed read.
C15_PushedBackLineBlocksAndBufferGrows ==
    [][(pc = "read" /\ BlockedAt > 0) =>
           /\ pc' = "read" =>
                  /\ consumed' = consumed
                  /\ log' = log
                  /\ assistantMessage' = assistantMessage
                  /\ messages' = messages
                  /\ ~streamDone'
                  /\ FirstLine' = FirstLine
                  /\ LineOutcome(FirstLine').act = "pushback"
                  /\ Len(textBuffer') > Len(textBuffer)
           /\ pc' # "read" => (eof' \/ pc' = "idle")]_vars

\* C15, amended: the same, except that a chunk need not make the buffer
\* longer: the buffer never gets shorter, and the bytes held by the buffer and
\* the decoder together get more with every chunk.
C15_PushedBackLineBlocks ==
    [][(pc = "read" /\ BlockedAt > 0) =>
           /\ pc' = "read" =>
                  /\ consumed' = consumed
                  /\ log' = log
                  /\ assistantMessage' = assistantMessage
                  /\ messages' = messages
                  /\ ~streamDone'
                  /\ FirstLine' = FirstLine
                  /\ LineOutcome(FirstLine').act = "pushback"
                  /\ Len(textBuffer') >= Len(textBuffer)
                  /\ Len(Encode(textBuffer') \o pending') >
                         Len(Encode(textBuffer) \o pending)
           /\ pc' # "read" => (eof' \/ pc' = "idle")]_vars

\* C15 witness: the first line was put back, the sentinel has arrived behind
\* it in a later chunk, the whole body is delivered and the loop still waits
C15_Witness ==
    /\ pc = "read"
    /\ BlockedAt = 1
    /\ Len(lines) >= 2
    /\ lines[2] \in SentinelKinds
    /\ pos = Len(stream)
    /\ carried
    /\ ~streamDone
    /\ consumed = 0
    /\ assistantMessage = <<>>

\* the kinds of data lines whose payload is syntactically valid JSON
ValidJsonKinds ==
    {k \in Kinds : StartsWith(LineText(k), DataPrefix) /\ JSONparse(PayloadOf(k)).ok}

\* C16: a delivered data line whose payload is valid JSON, of whatever shape,
\* is consumed when the loop reaches it and never put back.
C16_ValidJsonIsNeverPutBack ==
    Streaming =>
        \A i \in 1..Len(lines) :
            (lines[i] \in ValidJsonKinds /\ Reached(i) /\ Delivered(i)) =>
                /\ consumed >= i
                /\ BlockedAt # i

\* what the code keeps of C16: every valid payload other than null is consumed
C16_ValidJsonOtherThanNullIsConsumed ==
    /\ PushBackKinds \subseteq ParseFailKinds \cup {"null"}
    /\ Streaming =>
           \A i \in 1..Len(lines) :
               (lines[i] \in ValidJsonKinds \ {"null"} /\ Reached(i) /\ Delivered(i)) =>
                   /\ consumed >= i
                   /\ BlockedAt # i

\* C17: when getSession gives no access token the call returns at once: no
\* request was sent and nothing was read, one error is shown, nothing is
\* saved, and the message list is the list before the call.
C17_NoTokenRollsBack ==
    [][(pc = "getSession" /\ outcome' = "no-session") =>
           /\ stream = <<>> /\ pos = 0
           /\ pc' = "idle"
           /\ Len(toasts') = Len(toasts) + 1
           /\ inserts' = inserts
           /\ messages' = before]_vars

\* what the code keeps of C17: all of it except the list, which keeps the
\* user message added at line 28
C17_NoTokenKeepsUserMessage ==
    [][(pc = "getSession" /\ outcome' = "no-session") =>
           /\ stream = <<>> /\ pos = 0
           /\ pc' = "idle"
           /\ toasts' = Append(toasts, "Please sign in to chat")
           /\ inserts' = inserts
           /\ ~loading'
           /\ messages' = Append(before, userMessage)]_vars

\* the list a turn shows while it streams: the list before the call, the user
\* message, and one assistant message with the given content
TurnList(content) ==
    Append(Append(before, userMessage), Message("assistant", content))

\* C18: from the placeholder on, through every streaming update and until the
\* call returns, the list is the list before the call, the user message and
\* one assistant message holding the cumulative content: an update changes
\* only the content of the last element; and a turn whose loop ended leaves
\* the list so.
C18_UpdatesReplaceLastOnly ==
    /\ Streaming => messages = TurnList(assistantMessage)
    /\ (pc = "idle" /\ outcome \in {"saved", "save-failed", "unsaved"}) =>
           messages = TurnList(LastContent)

\* C18 witness: two updates have been made and the list still has the user
\* message and one assistant message, with both fragments
C18_Witness ==
    /\ pc = "read"
    /\ Len(log) = 2
    /\ Len(messages) = Len(before) + 2
    /\ messages[Len(messages) - 1] = userMessage
    /\ LastContent = log[1].text \o log[2].text

\* the ways a turn ends that are failures of one of its steps
FailureOutcomes ==
    {"no-session", "session-failed", "fetch-failed", "http-error",
     "read-failed", "save-failed"}

\* the turn returns in this step
Returns == pc # "idle" /\ pc' = "idle"

\* C19: every step that ends a turn sets loading back to false, so that the
\* guard of sendMessage is open for the next message, and a turn that ends by
\* a failure of any of its steps (session, fetch, status, read, insert) shows
\* exactly one error in doing so.
C19_FailuresAreCaught ==
    [][Returns =>
           /\ ~loading'
           /\ outcome' \in FailureOutcomes => Len(toasts') = Len(toasts) + 1
           /\ outcome' \notin FailureOutcomes => toasts' = toasts]_vars

\* what the code keeps of C19: every turn ends with loading false, and every
\* failure other than a failed insert shows one error
C19_FailuresBeforeInsertAreCaught ==
    [][Returns =>
           /\ ~loading'
           /\ outcome' \in FailureOutcomes \ {"save-failed"} =>
                  Len(toasts') = Len(toasts) + 1
           /\ outcome' \notin FailureOutcomes \ {"save-failed"} =>
                  toasts' = toasts]_vars

\* the lines of the body whose newline has been delivered
DeliveredLines == Cardinality({i \in 1..Len(lines) : Delivered(i)})

\* C20, the line loop: whenever the loop waits for the next chunk, the line
\* loop of the last chunk has ended, having taken out of the buffer only lines
\* that have arrived, and it has left no complete line in the buffer unless it
\* stopped at a line it put back.
C20_LineLoopHasEnded ==
    Streaming =>
        /\ consumed <= DeliveredLines
        /\ pc = "read" => (IndexOf(textBuffer, LF) = 0 \/ BlockedAt > 0)

\* C20, one chunk after another: a step of the read loop takes the next
\* tokens of the body and never goes back, and a read() that delivers nothing
\* is the end of the body and ends the loop.
C20_ChunksInOrder ==
    [][(pc = "read" /\ pc' # "idle") =>
           /\ pos' >= pos
           /\ consumed' >= consumed
           /\ pos' = pos => (eof' /\ pc' = "getUser")]_vars

\* C20: the line loop of every chunk ends, chunks are processed one after
\* another, and every turn that is running ends, whatever the body and however
\* it is cut into chunks.
C20_ReadLoopTerminates ==
    /\ []C20_LineLoopHasEnded
    /\ C20_ChunksInOrder
    /\ TurnRunning ~> (pc = "idle" /\ ~loading)

\* C20 witness: a body of MaxLines lines was read in more than one chunk up to
\* its end, and the turn has gone on to the insert
C20_Witness ==
    /\ pc = "insert"
    /\ eof
    /\ Len(lines) = MaxLines
    /\ pos = Len(stream)
    /\ carried
    /\ consumed = MaxLines

----------------------------------------------------------------------------
(* The chat with image generation: generateImage beside sendMessage        *)
(* (src/src/components/AvatarCustomizer.tsx, lines 612-758; its            *)
(* sendMessage, lines 654-758, is the code of ChatInterface.tsx, lines     *)
(* 24-128, line for line)                                                  *)

MaxImageCalls == 1
MaxImageLines == 2

ImagePrompts == {<<>>, <<"c", "a", "t">>}

\* lines 631-634: the message that shows the generated image
ImageMessage ==
    Message("assistant",
            <<"Here's the generated image:", LF, LF, "![Generated Image](url)">>)

\* finally { setGeneratingImage(false) } and the return
ImageFinally ==
    /\ generatingImage' = SetState(generatingImage, FALSE)
    /\ imagePc' = "idle"

\* lines 612-616: no description, an error is shown and nothing else happens
GenerateImageBlank ==
    /\ mounted
    /\ imageCalls < MaxImageCalls
    /\ Trim(imagePrompt) = <<>>
    /\ toasts' = Append(toasts, "Please enter an image description")
    /\ imageCalls' = imageCalls + 1
    /\ UNCHANGED <<messages, input, loading, mounted, pc, userMessage, inserts,
                   before, outcome, imagePrompt, generatingImage, imagePc>>
    /\ LocalsUnchanged
    /\ UNCHANGED outsideImage

\* lines 612-620: the handler of the image button and of the Enter key
GenerateImage ==
    /\ mounted
    /\ imageCalls < MaxImageCalls
    /\ Trim(imagePrompt) # <<>>
    /\ generatingImage' = TRUE
    /\ imagePc' = "invoke"
    /\ imageCalls' = imageCalls + 1
    /\ UNCHANGED <<messages, input, loading, mounted, pc, userMessage, toasts,
                   inserts, before, outcome, imagePrompt>>
    /\ LocalsUnchanged
    /\ UNCHANGED outsideImage

\* lines 620-624 and the catch: the function call fails
ImageInvokeFails ==
    /\ imagePc = "invoke"
    /\ toasts' = Append(toasts, "Failed to generate image")
    /\ ImageFinally
    /\ UNCHANGED <<messages, input, loading, mounted, pc, userMessage, inserts,
                   before, outcome, imagePrompt, imageCalls>>
    /\ LocalsUnchanged
    /\ UNCHANGED outsideImage

\* lines 626-629: the function answers with an error of its own
ImageInvokeDataError ==
    /\ imagePc = "invoke"
    /\ toasts' = Append(toasts, "Image generation failed")
    /\ ImageFinally
    /\ UNCHANGED <<messages, input, loading, mounted, pc, userMessage, inserts,
                   before, outcome, imagePrompt, imageCalls>>
    /\ LocalsUnchanged
    /\ UNCHANGED outsideImage

\* lines 631-637: the image message is added at the end of the list
ImageInvokeOk ==
    /\ imagePc = "invoke"
    /\ messages' = SetState(messages, Append(messages, ImageMessage))
    /\ imagePrompt' = SetState(imagePrompt, <<>>)
    /\ imagePc' = "getUser"
    /\ UNCHANGED <<input, loading, mounted, pc, userMessage, toasts, inserts,
                   before, outcome, generatingImage, imageCalls>>
    /\ LocalsUnchanged
    /\ UNCHANGED outsideImage

\* line 642: getUser resolves, with a user or without
ImageGetUser ==
    /\ imagePc = "getUser"
    /\ imagePc' = "insert"
    /\ UNCHANGED <<messages, input, loading, mounted, pc, userMessage, toasts,
                   inserts, before, outcome, imagePrompt, generatingImage,
                   imageCalls>>
    /\ LocalsUnchanged
    /\ UNCHANGED outsideImage

\* line 642 and the catch: getUser rejects
ImageGetUserFails ==
    /\ imagePc = "getUser"
    /\ toasts' = Append(toasts, "Failed to generate image")
    /\ ImageFinally
    /\ UNCHANGED <<messages, input, loading, mounted, pc, userMessage, inserts,
                   before, outcome, imagePrompt, imageCalls>>
    /\ LocalsUnchanged
    /\ UNCHANGED outsideImage

\* lines 639-651: the image message is saved as one row; the result of the
\* insert is not read
ImageInsert ==
    /\ imagePc = "insert"
    /\ inserts' = Append(inserts, <<ImageMessage>>)
    /\ ImageFinally
    /\ UNCHANGED <<messages, input, loading, mounted, pc, userMessage, toasts,
                   before, outcome, imagePrompt, imageCalls>>
    /\ LocalsUnchanged
    /\ UNCHANGED outsideImage

\* a chat about to be used: some text in the box, any image description
InitImage ==
    /\ messages = <<>>
    /\ input = <<"h", "i">>
    /\ loading = FALSE
    /\ mounted = TRUE
    /\ pc = "idle"
    /\ userMessage = Message("user", <<>>)
    /\ textBuffer = <<>>
    /\ assistantMessage = <<>>
    /\ streamDone = FALSE
    /\ pending = <<>>
    /\ toasts = <<>>
    /\ inserts = <<>>
    /\ lines = <<>>
    /\ stream = <<>>
    /\ pos = 0
    /\ eof = FALSE
    /\ consumed = 0
    /\ log = <<>>
    /\ carried = FALSE
    /\ before = <<>>
    /\ outcome = "none"
    /\ imagePrompt \in ImagePrompts
    /\ generatingImage = FALSE
    /\ imagePc = "idle"
    /\ imageCalls = 0
    /\ LoopsAtRest
    /\ PanelsAtRest
    /\ AvatarAtRest

\* the response bodies of the chat with image generation: content lines and
\* sentinels
ImageBodies == UNION { [1..n -> CoreKinds] : n \in 0..MaxImageLines }

FetchOkImage == FetchOkFrom(ImageBodies)

NextImage ==
    \/ SendMessage
    \/ SendMessageReturns
    \/ GetSessionToken
    \/ GetSessionNone
    \/ GetSessionFails
    \/ FetchFails
    \/ FetchNotOk
    \/ ErrorJson
    \/ FetchOkImage
    \/ ReadChunk
    \/ ReadDone
    \/ ReadFails
    \/ GetUserNone
    \/ GetUser
    \/ Insert
    \/ InsertError
    \/ GenerateImageBlank
    \/ GenerateImage
    \/ ImageInvokeFails
    \/ ImageInvokeDataError
    \/ ImageInvokeOk
    \/ ImageGetUser
    \/ ImageGetUserFails
    \/ ImageInsert

\* sendMessage and generateImage of one mounted chat, in any interleaving
SpecImage == InitImage /\ [][NextImage]_vars

ImageShown == \E i \in 1..Len(messages) : messages[i] = ImageMessage

\* C21: an image message that is in the list while the response of a chat
\* turn is streaming stays in the list, unchanged, whatever the turn does: no
\* streaming update overwrites it and the rollback of a failed turn does not
\* remove it.
C21_ImageMessageIsKept ==
    [][(ImageShown /\ pc = "read") => ImageShown']_vars

\* C21, what the chat turn does keep: every message but the last of the list
\* is left as it is by every step
C21_OnlyLastMessageIsTouched ==
    [][\A i \in 1..(Len(messages) - 1) :
           i <= Len(messages') => messages'[i] = messages[i]]_vars

\* C21, the steps that lose the image: a fragment arrives, or the turn fails,
\* while the image message is the last of the list
C21_ImageIsLastDuringTurn ==
    /\ pc = "read"
    /\ messages # <<>>
    /\ messages[Len(messages)] = ImageMessage

----------------------------------------------------------------------------
(* C22: the write to chat_messages *)

\* the read loop was left by the sentinel or by the end of the body
StreamEnded == streamDone \/ eof

\* the response had no body: there is no reader, the read loop is not entered
\* (lines 62, 71) and nothing was read
NoReader ==
    /\ ~streamDone
    /\ ~eof
    /\ stream = <<>>
    /\ pos = 0
    /\ assistantMessage = <<>>

\* the insert of this step: two rows, the user message and then the assistant
\* message with the content the last displayed message shows
WritesTheTurn ==
    /\ pc = "insert"
    /\ inserts = <<>>
    /\ Len(inserts') = 1
    /\ Len(inserts'[1]) = 2
    /\ inserts'[1][1] = Message("user", userMessage.content)
    /\ inserts'[1][2].role = "assistant"
    /\ messages # <<>>
    /\ messages[Len(messages)].role = "assistant"
    /\ inserts'[1][2].content = messages[Len(messages)].content

\* a turn that did not get to the insert has written nothing, and no turn
\* writes twice
NoOtherWrite ==
    /\ Len(inserts) <= 1
    /\ outcome \notin {"saved", "save-failed"} => inserts = <<>>
    /\ pc = "insert" => outcome = "running"

\* the insert step is reached from getUser only, when it returned a user
UserIsAuthenticated == [][pc' = "insert" => (pc = "getUser" /\ GetUser)]_vars

\* C22 as stated: a turn writes to chat_messages only after its stream has
\* reached the sentinel or the end of the body and getUser has returned a
\* user; the write is one insert of two rows, the user message and then the
\* assistant message with the content the last displayed message shows; a
\* turn that fails earlier writes nothing.
C22_WritesOnlyAfterStreamEnd ==
    /\ []NoOtherWrite
    /\ UserIsAuthenticated
    /\ [][inserts' # inserts => (StreamEnded /\ WritesTheTurn)]_vars

\* C22 with the response that has no body: a turn writes to chat_messages
\* only after its stream has reached the sentinel or the end of the body, or
\* when the response had no body to read, and getUser has returned a user;
\* the write is one insert of two rows, the user message and then the
\* assistant message with the content the last displayed message shows (empty
\* when there was no body); a turn that fails earlier writes nothing.
C22_WritesOnlyAfterLoop ==
    /\ []NoOtherWrite
    /\ UserIsAuthenticated
    /\ [][inserts' # inserts =>
              /\ StreamEnded \/ NoReader
              /\ WritesTheTurn
              /\ NoReader => inserts'[1][2].content = <<>>]_vars

\* C22 witness: a turn whose stream delivered content was saved
C22_Witness ==
    /\ outcome = "saved"
    /\ Len(inserts) = 1
    /\ inserts[1][2].content # <<>>
    /\ messages[Len(messages)].content = inserts[1][2].content

----------------------------------------------------------------------------
(* C23: the buffer between two chunks *)

\* the buffer begins with a data line whose payload JSON.parse rejects
HeadFailedToParse ==
    /\ IndexOf(textBuffer, LF) > 0
    /\ StartsWith(FirstLine, DataPrefix)
    /\ Trim(Slice(FirstLine, 6)) # <<DoneToken>>
    /\ ~JSONparse(Trim(Slice(FirstLine, 6))).ok

\* the buffer begins with a line that the catch of lines 106-109 put back
HeadWasPutBack ==
    /\ IndexOf(textBuffer, LF) > 0
    /\ LineOutcome(FirstLine).act = "pushback"

\* C23: once the line loop of a chunk has finished, the stream is done, or
\* the buffer holds no newline, or the buffer begins with a data line that
\* failed to parse; a complete line that parses is never left at the head of
\* the buffer.
C23_NoParsableLineIsLeft ==
    Streaming =>
        \/ streamDone
        \/ IndexOf(textBuffer, LF) = 0
        \/ HeadFailedToParse

\* what the code keeps of C23: a complete line is left at the head of the
\* buffer only by the sentinel or by the catch, which also catches the
\* TypeError of a payload that parsed
C23_HeadLineWasPutBack ==
    Streaming =>
        \/ streamDone
        \/ IndexOf(textBuffer, LF) = 0
        \/ HeadWasPutBack

\* C23, the states it is about: the line loop has left a line it put back,
\* with more lines behind it
C23_PutBackLineIsHead ==
    /\ pc = "read"
    /\ HeadWasPutBack
    /\ Len(textBuffer) > Len(FirstLine) + 1

----------------------------------------------------------------------------
(* C24: the stream loop of sendMessageInternal                             *)
(* (src/src/components/AvatarCustomizer.tsx, lines 370-400) beside the     *)
(* loop of sendMessage, both fed the same chunks                           *)

\* String.prototype.split("\n")
RECURSIVE Split(_)
Split(text) ==
    LET newlineIndex == IndexOf(text, LF) IN
    IF newlineIndex = 0 THEN <<text>>
    ELSE <<SubSeq(text, 1, newlineIndex - 1)>>
             \o Split(SubSeq(text, newlineIndex + 1, Len(text)))

\* JSON.parse(data) on a text that was not trimmed: white space around the
\* value is skipped
JSONparseText(ts) == JSONparse(Trim(ts))

\* parsed.choices[0]?.delta?.content, line 384: without ?. after choices,
\* reading [0] throws for every value that has no choices
InternalContentOf(parsed) ==
    IF parsed.t # "object" \/ parsed.choices = "absent"
        THEN [threw |-> TRUE, value |-> Undefined]
    ELSE IF parsed.choices = "one"
        THEN [threw |-> FALSE, value |-> parsed.content]
    ELSE [threw |-> FALSE, value |-> Undefined]

EmptyString == [t |-> "string", s |-> <<>>]

\* content || "" without the default: the content as it is
OrEmptyKeepsContent(v) == v

\* content || ""
OrEmpty(v) == IF Truthy(v) THEN v ELSE EmptyString

\* lines 378-399, the body of the for loop for one line of the chunk
InternalLine(st, line) ==
    IF ~StartsWith(line, DataPrefix) THEN st
    ELSE LET data == Slice(line, 6) IN
         IF data = <<DoneToken>> THEN st
         ELSE LET parsed == JSONparseText(data) IN
              IF ~parsed.ok \/ InternalContentOf(parsed).threw THEN st
              ELSE LET content == OrEmpty(InternalContentOf(parsed).value)
                       whole == st.assistantMessage \o ToText(content)
                   IN  [assistantMessage |-> whole,
                        messages |-> ReplaceLast(st.messages, whole)]

RECURSIVE InternalLines(_, _)
InternalLines(st, ls) ==
    IF ls = <<>> THEN st
    ELSE InternalLines(InternalLine(st, Head(ls)), Tail(ls))

\* decoder.decode(value), line 374: the decoder keeps nothing for the next
\* call, a character cut by the end of the chunk becomes U+FFFD
DecodeChunk(bytes) ==
    LET d == DecodeFrom(<<>>, bytes, <<>>) IN
    IF d.pending = <<>> THEN d.text ELSE Append(d.text, Replacement)

\* lines 374-399: one chunk, decoded on its own and split into lines
InternalChunk(st, value) == InternalLines(st, Split(DecodeChunk(value)))

InternalLocals ==
    [assistantMessage |-> internalAssistantMessage,
     messages |-> internalMessages]

\* the data lines whose payload is a valid JSON object, ended by a newline
ValidObjectKinds ==
    {k \in Kinds : /\ StartsWith(LineText(k), DataPrefix)
                   /\ LineEnding(k) # <<>>
                   /\ JSONparse(PayloadOf(k)).ok
                   /\ JSONparse(PayloadOf(k)).t = "object"}

\* the bodies both loops are fed: lines with object payloads and sentinels,
\* the sentinels anywhere
LoopBodies ==
    {ks \in Bodies :
         \A i \in 1..Len(ks) : ks[i] \in ValidObjectKinds \cup SentinelKinds}

\* reader.read() delivers the next n wire tokens of the same body to both
\* loops; the loop of sendMessage reads no more once it has seen the sentinel.
\* The chunks end at the end of a line, or one chunk ends inside a line and
\* the next one is the rest of the body.
ReadBoth ==
    /\ pc = "read"
    /\ ~eof
    /\ \E n \in 1..(Len(stream) - pos) :
           /\ wholeLines \/ pos + n = Len(stream)
           /\ pos' = pos + n
           /\ wholeLines' = (wholeLines /\ \E i \in 1..Len(lines) :
                                               /\ lines[i] # "cut"
                                               /\ EndPos(i) = pos + n)
           /\ \E st \in {IF streamDone THEN Locals
                         ELSE ProcessChunk(Locals,
                                           SubSeq(stream, pos + 1, pos + n))} :
                  /\ textBuffer' = st.textBuffer
                  /\ assistantMessage' = st.assistantMessage
                  /\ streamDone' = st.streamDone
                  /\ messages' = st.messages
                  /\ pending' = st.pending
                  /\ consumed' = st.consumed
                  /\ log' = st.log
           /\ \E st \in {InternalChunk(InternalLocals,
                                       SubSeq(stream, pos + 1, pos + n))} :
                  /\ internalAssistantMessage' = st.assistantMessage
                  /\ internalMessages' = st.messages
    /\ manyChunks' = (pos > 0)
    /\ carried' = (textBuffer # <<>>)
    /\ UNCHANGED <<input, loading, mounted, pc, userMessage, toasts, inserts,
                   lines, stream, eof, before, outcome>>
    /\ UNCHANGED outsideLoops

\* reader.read() returns done at the end of the body, and both loops end
ReadBothDone ==
    /\ pc = "read"
    /\ ~eof
    /\ pos = Len(stream)
    /\ eof' = TRUE
    /\ UNCHANGED <<messages, input, loading, mounted, pc, userMessage,
                   textBuffer, assistantMessage, streamDone, pending, toasts,
                   inserts, lines, stream, pos, consumed, log, carried, before,
                   outcome>>
    /\ UNCHANGED loopVars
    /\ UNCHANGED outsideLoops

\* both loops are about to read a body: the placeholder is the last message
\* of either list, the locals are fresh
InitLoops ==
    /\ lines \in LoopBodies
    /\ stream = Wire(lines)
    /\ messages = <<Message("user", <<"h", "i">>), Message("assistant", <<>>)>>
    /\ internalMessages =
           <<Message("user", <<"h", "i">>), Message("assistant", <<>>)>>
    /\ input = <<>>
    /\ loading = TRUE
    /\ mounted = TRUE
    /\ pc = "read"
    /\ userMessage = Message("user", <<"h", "i">>)
    /\ textBuffer = <<>>
    /\ assistantMessage = <<>>
    /\ internalAssistantMessage = <<>>
    /\ streamDone = FALSE
    /\ pending = <<>>
    /\ toasts = <<>>
    /\ inserts = <<>>
    /\ pos = 0
    /\ eof = FALSE
    /\ consumed = 0
    /\ log = <<>>
    /\ carried = FALSE
    /\ before = <<>>
    /\ outcome = "running"
    /\ wholeLines = TRUE
    /\ manyChunks = FALSE
    /\ ImageAtRest
    /\ PanelsAtRest
    /\ AvatarAtRest

NextLoops == ReadBoth \/ ReadBothDone

\* the two loops on every body, cut into chunks in every way
SpecLoops == InitLoops /\ [][NextLoops]_vars

\* every line carries a valid JSON object, but for a sentinel as last line
ObjectLinesOnly ==
    \A i \in 1..Len(lines) :
        \/ lines[i] \in ValidObjectKinds
        \/ i = Len(lines) /\ lines[i] \in SentinelKinds

\* C24: when the body is made of newline-terminated data lines with valid
\* JSON object payloads, with nothing behind a [DONE] line, and every chunk
\* is made of whole lines, the loop of sendMessageInternal has assembled at
\* the end of the body the same assistant content as the loop of sendMessage,
\* and shows it.
C24_UnbufferedLoopAgrees ==
    (eof /\ wholeLines /\ ObjectLinesOnly) =>
        /\ internalAssistantMessage = assistantMessage
        /\ internalMessages = messages

\* C24 witness: a body of MaxLines lines with contents of several types and a
\* sentinel at its end was read by both loops in more than one chunk of whole
\* lines
C24_Witness ==
    /\ eof
    /\ wholeLines
    /\ manyChunks
    /\ ObjectLinesOnly
    /\ Len(lines) = MaxLines
    /\ lines[MaxLines] \in SentinelKinds
    /\ \E i \in 1..Len(lines) : lines[i] \in NoContentKinds
    /\ internalAssistantMessage # <<>>

\* C24, outside its premise the loops differ: a line cut by a chunk boundary
\* is lost by the loop of sendMessageInternal
C24_CutLineIsLost ==
    /\ eof
    /\ ~wholeLines
    /\ ObjectLinesOnly
    /\ internalAssistantMessage # assistantMessage

----------------------------------------------------------------------------
(* The panels: TaskManager (src/src/components/TaskManager.tsx),           *)
(* AutomationManager (src/src/components/AutomationManager.tsx) and        *)
(* MemoryManager (src/src/components/ChatInterface.tsx, lines 229-433).    *)
(* The three components are the same code on three tables: a list that is  *)
(* fetched on mount and after every change, a form that adds a row, a      *)
(* button per row that deletes it, and in two of them a toggle per row.    *)
(* A handler call is a record in calls from its first await to its return; *)
(* the fetch a handler starts after a change is the last part of its call. *)

MaxCalls == 2
MaxRows == 1

Panels == {"tasks", "commands", "memories"}

FormTexts == {<<>>, <<SP>>, <<"t">>}

\* the row an insert creates: the columns the code does not send take the
\* defaults of the migration (status 'pending', completed_at null, enabled
\* true); no timestamp is the empty sequence
NewRow(p, id) ==
    CASE p = "tasks" -> [id |-> id, status |-> "pending", completed_at |-> <<>>]
      [] p = "commands" -> [id |-> id, enabled |-> TRUE]
      [] p = "memories" -> [id |-> id]

Call(n, op, at, id, to) ==
    [n |-> n, op |-> op, pc |-> at, id |-> id, to |-> to, data |-> <<>>]

\* the call c goes on as c2
Becomes(c, c2) == calls' = (calls \ {c}) \cup {c2}

Returned(c) == calls' = calls \ {c}

\* toast.error
Notice(message) == notices' = Append(notices, message)

ItemName == CASE panel = "tasks" -> "task"
              [] panel = "commands" -> "command"
              [] panel = "memories" -> "memory"

\* the message of the catch of an add handler for an error without one
AddFailed == CASE panel = "tasks" -> "Failed to create task"
               [] panel = "commands" -> "Failed to create command"
               [] panel = "memories" -> "Failed to add memory"

\* the column a toggle writes, and the row with the update applied
Updated(row, c) ==
    IF row.id # c.id THEN row
    ELSE IF panel = "tasks"
        THEN [row EXCEPT !.status = c.to[1], !.completed_at = c.to[2]]
    ELSE [row EXCEPT !.enabled = c.to[1]]

RowIds(rows) == {rows[i].id : i \in 1..Len(rows)}

RECURSIVE Without(_, _)
Without(rows, id) ==
    IF rows = <<>> THEN <<>>
    ELSE IF Head(rows).id = id THEN Without(Tail(rows), id)
    ELSE <<Head(rows)>> \o Without(Tail(rows), id)

\* the form is typed into (lines 154): onChange of the required field
TypeRequired ==
    /\ showAdd
    /\ \E text \in FormTexts : newItem' = text /\ newItem # text
    /\ UNCHANGED <<panel, table, shown, showAdd, formLoading, calls, notices,
                   started, created, toggles, failed>>
    /\ UNCHANGED outsidePanels

\* line 136: the button that opens and closes the form
ToggleShowAdd ==
    /\ showAdd' = ~showAdd
    /\ UNCHANGED <<panel, table, shown, formLoading, newItem, calls, notices,
                   started, created, toggles, failed>>
    /\ UNCHANGED outsidePanels

\* line 205: Cancel
CancelAdd ==
    /\ showAdd
    /\ showAdd' = FALSE
    /\ UNCHANGED <<panel, table, shown, formLoading, newItem, calls, notices,
                   started, created, toggles, failed>>
    /\ UNCHANGED outsidePanels

\* the required field of the form is blank
BlankAlways(text) == FALSE

Blank(text) == Trim(text) = <<>>

\* the guard of addTask, addMemory and addCommand: a blank required field,
\* the call returns at once
AddReturns ==
    /\ showAdd
    /\ Blank(newItem)
    /\ UNCHANGED vars

\* an add handler up to its first await: setLoading(true), getUser pending;
\* its button is disabled while loading is set (TaskManager.tsx, line 200)
Add(p) ==
    /\ panel = p
    /\ showAdd
    /\ ~formLoading
    /\ ~Blank(newItem)
    /\ started < MaxCalls
    /\ Len(table) + Cardinality({c \in calls : c.op = "add" /\ c.pc = "request"})
           < MaxRows
    /\ formLoading' = TRUE
    /\ started' = started + 1
    /\ calls' = calls \cup {Call(started + 1, "add", "request", 0, <<>>)}
    /\ UNCHANGED <<panel, table, shown, showAdd, newItem, notices, created,
                   toggles, failed>>
    /\ UNCHANGED outsidePanels

\* TaskManager.tsx, lines 57-62
AddTask == Add("tasks")

\* ChatInterface.tsx, lines 261-266
AddMemory == Add("memories")

\* AutomationManager.tsx, lines 55-60
AddCommand == Add("commands")

\* lines 62-63, 77-81: getUser returns no user
AddNoUser ==
    /\ \E c \in calls :
           /\ c.op = "add" /\ c.pc = "request"
           /\ Returned(c)
    /\ Notice("Not authenticated")
    /\ formLoading' = FALSE
    /\ failed' = TRUE
    /\ UNCHANGED <<panel, table, shown, showAdd, newItem, started, created,
                   toggles>>
    /\ UNCHANGED outsidePanels

\* lines 65-71, 77-81: the insert returns an error, with a message or without
AddInsertError ==
    /\ \E c \in calls :
           /\ c.op = "add" /\ c.pc = "request"
           /\ Returned(c)
    /\ \E message \in {"new row violates row-level security policy",
                       AddFailed} :
           Notice(message)
    /\ formLoading' = FALSE
    /\ failed' = TRUE
    /\ UNCHANGED <<panel, table, shown, showAdd, newItem, started, created,
                   toggles>>
    /\ UNCHANGED outsidePanels

\* lines 65-76, 79-81: the row is inserted, the form is reset and closed, the
\* list is fetched again, and the finally runs while that fetch is pending
AddInsertOk ==
    /\ \E c \in calls :
           /\ c.op = "add" /\ c.pc = "request"
           /\ Becomes(c, [c EXCEPT !.pc = "select"])
    /\ table' = <<NewRow(panel, created + 1)>> \o table
    /\ created' = created + 1
    /\ toggles' = Append(toggles, 0)
    /\ newItem' = <<>>
    /\ showAdd' = FALSE
    /\ formLoading' = FALSE
    /\ UNCHANGED <<panel, shown, notices, started, failed>>
    /\ UNCHANGED outsidePanels

\* completed_at of line 91: the time of the click, or null
CompletedAtAlways(newStatus, now) == <<now>>

CompletedAt(newStatus, now) ==
    IF newStatus = "completed" THEN <<now>> ELSE <<>>

\* TaskManager.tsx, lines 84-93: the click on the circle of a displayed task;
\* newStatus is computed from the task as it is displayed
ToggleTask ==
    /\ panel = "tasks"
    /\ started < MaxCalls
    /\ \E i \in 1..Len(shown) :
           LET task == shown[i]
               newStatus == IF task.status = "completed" THEN "pending"
                            ELSE "completed"
           IN  calls' = calls \cup
                   {Call(started + 1, "toggle", "request", task.id,
                         <<newStatus, CompletedAt(newStatus, started + 1)>>)}
    /\ started' = started + 1
    /\ UNCHANGED <<panel, table, shown, showAdd, formLoading, newItem, notices,
                   created, toggles, failed>>
    /\ UNCHANGED outsidePanels

\* AutomationManager.tsx, lines 85-90, 229-234: the switch of a displayed
\* command; enabled is the value as it is displayed
ToggleCommand ==
    /\ panel = "commands"
    /\ started < MaxCalls
    /\ \E i \in 1..Len(shown) :
           LET command == shown[i] IN
           calls' = calls \cup
               {Call(started + 1, "toggle", "request", command.id,
                     <<~command.enabled>>)}
    /\ started' = started + 1
    /\ UNCHANGED <<panel, table, shown, showAdd, formLoading, newItem, notices,
                   created, toggles, failed>>
    /\ UNCHANGED outsidePanels

\* lines 87-96: the update is applied to the row with this id, if there is
\* one, and the list is fetched again
ToggleOk ==
    /\ \E c \in calls :
           /\ c.op = "toggle" /\ c.pc = "request"
           /\ Becomes(c, [c EXCEPT !.pc = "select"])
           /\ table' = [i \in 1..Len(table) |-> Updated(table[i], c)]
           /\ toggles' = [id \in 1..Len(toggles) |->
                              IF id = c.id /\ id \in RowIds(table)
                              THEN toggles[id] + 1 ELSE toggles[id]]
    /\ UNCHANGED <<panel, shown, showAdd, formLoading, newItem, notices,
                   started, created, failed>>
    /\ UNCHANGED outsidePanels

\* lines 95, 97-99: the update returns an error
ToggleFails ==
    /\ \E c \in calls :
           /\ c.op = "toggle" /\ c.pc = "request"
           /\ Returned(c)
    /\ Notice("Failed to update " \o ItemName)
    /\ failed' = TRUE
    /\ UNCHANGED <<panel, table, shown, showAdd, formLoading, newItem, started,
                   created, toggles>>
    /\ UNCHANGED outsidePanels

\* lines 102-104: the click on the bin of a displayed row
DeleteRow ==
    /\ started < MaxCalls
    /\ \E i \in 1..Len(shown) :
           calls' = calls \cup
               {Call(started + 1, "delete", "request", shown[i].id, <<>>)}
    /\ started' = started + 1
    /\ UNCHANGED <<panel, table, shown, showAdd, formLoading, newItem, notices,
                   created, toggles, failed>>
    /\ UNCHANGED outsidePanels

\* lines 104-107: the row is deleted and the list is fetched again
DeleteOk ==
    /\ \E c \in calls :
           /\ c.op = "delete" /\ c.pc = "request"
           /\ Becomes(c, [c EXCEPT !.pc = "select"])
           /\ table' = Without(table, c.id)
    /\ UNCHANGED <<panel, shown, showAdd, formLoading, newItem, notices,
                   started, created, toggles, failed>>
    /\ UNCHANGED outsidePanels

\* lines 105, 108-110: the delete returns an error
DeleteFails ==
    /\ \E c \in calls :
           /\ c.op = "delete" /\ c.pc = "request"
           /\ Returned(c)
    /\ Notice("Failed to delete " \o ItemName)
    /\ failed' = TRUE
    /\ UNCHANGED <<panel, table, shown, showAdd, formLoading, newItem, started,
                   created, toggles>>
    /\ UNCHANGED outsidePanels

\* fetchTasks, lines 41-48: getUser returns the user and the select is
\* answered by the backend with the rows it has at that moment
Select ==
    /\ \E c \in calls :
           /\ c.pc = "select"
           /\ Becomes(c, [c EXCEPT !.pc = "respond", !.data = table])
    /\ UNCHANGED <<panel, table, shown, showAdd, formLoading, newItem, notices,
                   started, created, toggles, failed>>
    /\ UNCHANGED outsidePanels

\* lines 41-42: getUser returns no user, fetchTasks returns
FetchNoUser ==
    /\ \E c \in calls :
           /\ c.pc = "select"
           /\ Returned(c)
    /\ failed' = TRUE
    /\ UNCHANGED <<panel, table, shown, showAdd, formLoading, newItem, notices,
                   started, created, toggles>>
    /\ UNCHANGED outsidePanels

\* lines 50, 52-54: the select returns an error
SelectFails ==
    /\ \E c \in calls :
           /\ c.pc = "select"
           /\ Returned(c)
    /\ Notice("Failed to fetch " \o ItemName \o "s")
    /\ failed' = TRUE
    /\ UNCHANGED <<panel, table, shown, showAdd, formLoading, newItem, started,
                   created, toggles>>
    /\ UNCHANGED outsidePanels

\* line 51: the response of a select arrives, setTasks(data || [])
Respond ==
    /\ \E c \in calls :
           /\ c.pc = "respond"
           /\ Returned(c)
           /\ shown' = c.data
    /\ UNCHANGED <<panel, table, showAdd, formLoading, newItem, notices,
                   started, created, toggles, failed>>
    /\ UNCHANGED outsidePanels

\* a panel has been mounted: the fetch of its effect (lines 35-37) is
\* pending; the table is empty or holds a row that was added earlier
InitPanels ==
    /\ ChatAtRest
    /\ ImageAtRest
    /\ LoopsAtRest
    /\ AvatarAtRest
    /\ panel \in Panels
    /\ table \in {<<>>, <<NewRow(panel, 1)>>}
    /\ shown = <<>>
    /\ showAdd = FALSE
    /\ formLoading = FALSE
    /\ newItem = <<>>
    /\ calls = {Call(0, "fetch", "select", 0, <<>>)}
    /\ notices = <<>>
    /\ started = 0
    /\ created = Len(table)
    /\ toggles = [id \in 1..Len(table) |-> 0]
    /\ failed = FALSE

NextPanels ==
    \/ TypeRequired
    \/ ToggleShowAdd
    \/ CancelAdd
    \/ AddReturns
    \/ AddTask
    \/ AddMemory
    \/ AddCommand
    \/ AddNoUser
    \/ AddInsertError
    \/ AddInsertOk
    \/ ToggleTask
    \/ ToggleCommand
    \/ ToggleOk
    \/ ToggleFails
    \/ DeleteRow
    \/ DeleteOk
    \/ DeleteFails
    \/ Select
    \/ FetchNoUser
    \/ SelectFails
    \/ Respond

\* one panel, its user and its backend
SpecPanels == InitPanels /\ [][NextPanels]_vars

PanelsTypeOK ==
    /\ panel \in Panels
    /\ showAdd \in BOOLEAN
    /\ formLoading \in BOOLEAN
    /\ started \in 0..MaxCalls
    /\ created \in 0..(MaxRows + 1)
    /\ Len(table) <= created


----------------------------------------------------------------------------
(* C25: TaskManager keeps completed_at and status of a task together.      *)

TaskRows == {table[i] : i \in 1..Len(table)}

\* what toggleTask sends for the task it was called with
ToggledFrom(task, now) ==
    IF task.status = "completed" THEN <<"pending", <<>>>>
    ELSE <<"completed", <<now>>>>

\* the update of a toggle call is sent for a displayed task
ToggleIsSent ==
    \A c \in calls' \ calls :
        (c.op = "toggle" /\ c.pc = "request") =>
            \E i \in 1..Len(shown) :
                /\ shown[i].id = c.id
                /\ c.to = ToggledFrom(shown[i], c.n)

\* the update of a toggle call is applied to its row
ToggleIsApplied ==
    \A c \in calls :
        (c.op = "toggle" /\ c.pc = "request"
             /\ [c EXCEPT !.pc = "select"] \in calls') =>
            \A i \in 1..Len(table') :
                table'[i].id = c.id =>
                    /\ table'[i].status = c.to[1]
                    /\ table'[i].completed_at = c.to[2]

\* C25: in every task row that addTask, toggleTask and deleteTask have made,
\* completed_at is set exactly when status is 'completed'; toggleTask sends
\* 'pending' and null for a task that is 'completed' and 'completed' with the
\* time of the click for any other, and that is what its row gets
C25_CompletedAtIffCompleted ==
    /\ [](panel = "tasks" =>
              \A row \in TaskRows :
                  (row.completed_at # <<>>) <=> (row.status = "completed"))
    /\ [][panel = "tasks" => (ToggleIsSent /\ ToggleIsApplied)]_vars

\* C25, reached: a task that was completed and then set back to pending
C25_Witness ==
    /\ panel = "tasks"
    /\ \E row \in TaskRows :
           /\ toggles[row.id] = 2
           /\ row.status = "pending"
           /\ row.completed_at = <<>>


----------------------------------------------------------------------------
(* C26: two toggles of one row.                                            *)

\* the column a toggle writes has the value the insert gave it
HasOriginalValue(row) ==
    IF panel = "tasks" THEN row.status = NewRow(panel, row.id).status
    ELSE row.enabled = NewRow(panel, row.id).enabled

\* C26: a row of tasks or custom_commands whose toggle has succeeded twice
\* holds its original value again, however the two calls and the list
\* refreshes were interleaved
C26_TwoTogglesRestore ==
    panel \in {"tasks", "commands"} =>
        \A i \in 1..Len(table) :
            toggles[table[i].id] = 2 => HasOriginalValue(table[i])

\* C26, what holds: a toggle sent for a row whose displayed value is the
\* stored one negates the stored value
C26_FreshToggleNegates ==
    [][\A c \in calls' \ calls :
           (c.op = "toggle" /\ c.pc = "request") =>
               \A i \in 1..Len(table) :
                   (table[i].id = c.id /\ table[i] \in {shown[j] : j \in 1..Len(shown)}) =>
                       c.to[1] # (IF panel = "tasks" THEN table[i].status
                                  ELSE table[i].enabled)]_vars

----------------------------------------------------------------------------
(* C27: the displayed list after overlapping operations.                   *)

\* C27: when no TaskManager call is in flight and no backend call has
\* failed, the displayed tasks are the rows of the backend
C27_ShownIsBackend ==
    (panel = "tasks" /\ calls = {} /\ ~failed) => shown = table

\* C27, what holds: the displayed list is replaced only by the rows some
\* select was answered with
C27_ShownIsSomeAnswer ==
    [][shown' # shown =>
           \E c \in calls : c.pc = "respond" /\ shown' = c.data]_vars

----------------------------------------------------------------------------
(* C28: addTask, addMemory and addCommand on failure and on success.       *)

AddRequests(cs) == {c \in cs : c.op = "add" /\ c.pc = "request"}

\* the add call c has failed in this step: it has returned from its request
AddFailedIn(c) == c \in AddRequests(calls) /\ \A c2 \in calls' : c2.n # c.n

\* the add call c has inserted in this step: it goes on to fetch the list
AddInsertedIn(c) ==
    c \in AddRequests(calls) /\ [c EXCEPT !.pc = "select"] \in calls'

\* a failed add leaves the form, the list and the table, shows one error,
\* clears loading and starts no fetch
FailedAddKeepsForm ==
    \A c \in calls :
        AddFailedIn(c) =>
            /\ newItem' = newItem
            /\ showAdd' = showAdd
            /\ shown' = shown
            /\ table' = table
            /\ calls' = calls \ {c}
            /\ Len(notices') = Len(notices) + 1
            /\ formLoading' = FALSE

\* an add that inserted resets and hides the form and fetches the list
InsertedAddResetsForm ==
    \A c \in calls :
        AddInsertedIn(c) =>
            /\ table' = <<NewRow(panel, created + 1)>> \o table
            /\ newItem' = <<>>
            /\ showAdd' = FALSE
            /\ formLoading' = FALSE
            /\ notices' = notices

\* an add call leaves its request in one of these two ways, and a fetch of
\* an add call is started by nothing else
AddEndsOneWay ==
    /\ \A c \in AddRequests(calls) :
           c \in calls' \/ AddFailedIn(c) \/ AddInsertedIn(c)
    /\ \A c2 \in calls' \ calls :
           (c2.op = "add" /\ c2.pc = "select") =>
               \E c \in calls : AddInsertedIn(c) /\ c2.n = c.n

\* with a blank required field no add call is started
BlankStartsNothing ==
    Trim(newItem) = <<>> => AddRequests(calls') \subseteq AddRequests(calls)

\* C28: an add handler that fails (no user, or an insert error) keeps the
\* entered value and the open form, fetches nothing, shows an error and sets
\* loading to false; the form is reset and hidden and the list fetched only
\* by an add whose insert succeeded; with a blank required field the handler
\* does nothing
C28_FailedAddKeepsForm ==
    [][/\ FailedAddKeepsForm
       /\ InsertedAddResetsForm
       /\ AddEndsOneWay
       /\ BlankStartsNothing]_vars

\* C28, reached: an add has failed for want of a user, the form is open with
\* its value, loading is false and nothing is in flight
C28_Witness ==
    /\ notices # <<>>
    /\ notices[Len(notices)] = "Not authenticated"
    /\ showAdd
    /\ newItem = <<"t">>
    /\ ~formLoading
    /\ calls = {}
    /\ shown = table


----------------------------------------------------------------------------
(* AvatarCustomizer (src/src/components/AvatarCustomizer.tsx, lines        *)
(* 14-181): the photo selection, the description, the generated preview    *)
(* and the save.                                                           *)

\* the limit of line 22
MaxPhotos == 5

\* the files the user can pick from, and the saveAvatar calls in flight
MaxFiles == 6
MaxSaves == 1

Files == 1..MaxFiles

\* Array.from(e.target.files): the chosen files in the order of the chooser
RECURSIVE Listed(_)
Listed(S) ==
    IF S = {} THEN <<>>
    ELSE LET first == CHOOSE f \in S : \A g \in S : f <= g
         IN  <<first>> \o Listed(S \ {first})

Selections == {Listed(S) : S \in SUBSET Files}

AvatarPrompts == {<<>>, <<"p">>}

Toast(kind, text, count) == [kind |-> kind, text |-> text, count |-> count]

\* line 22: files.length > 5
TooManyNever(files) == FALSE

TooMany(files) == Len(files) > MaxPhotos

\* handlePhotoUpload, lines 20-28, as a function of the stored selection and
\* the files of the event: the selection and the toast it leaves
PhotoUpload(stored, files) ==
    IF TooMany(files)
    THEN [photos |-> stored,
          toast |-> Toast("error", "Maximum 5 photos allowed", 0)]
    ELSE [photos |-> files,
          toast |-> Toast("success", "photo(s) uploaded", Len(files))]

\* onChange of the file input (line 114)
HandlePhotoUpload ==
    /\ \E files \in Selections :
           \E r \in {PhotoUpload(uploadedPhotos, files)} :
               /\ uploadedPhotos' = r.photos
               /\ avatarToast' = r.toast
    /\ UNCHANGED <<prompt, generating, previewUrl, saves>>
    /\ UNCHANGED outsideAvatar

\* line 133: onChange of the description, disabled while generating
SetPrompt ==
    /\ ~generating
    /\ \E text \in AvatarPrompts : prompt' = text /\ prompt # text
    /\ UNCHANGED <<generating, previewUrl, uploadedPhotos, avatarToast, saves>>
    /\ UNCHANGED outsideAvatar

\* generateAvatar, lines 30-46: its button is disabled while generating and
\* when there is neither a description nor a photo (line 141), which is the
\* condition of the return of lines 31-34
GenerateAvatar ==
    /\ ~generating
    /\ ~(Trim(prompt) = <<>> /\ Len(uploadedPhotos) = 0)
    /\ generating' = TRUE
    /\ UNCHANGED <<prompt, previewUrl, uploadedPhotos, avatarToast, saves>>
    /\ UNCHANGED outsideAvatar

\* lines 46-58, 62-64: the function returns an image
GenerateAvatarOk ==
    /\ generating
    /\ previewUrl' = TRUE
    /\ avatarToast' = Toast("success", "Avatar generated!", 0)
    /\ generating' = FALSE
    /\ UNCHANGED <<prompt, uploadedPhotos, saves>>
    /\ UNCHANGED outsideAvatar

\* lines 52-55, 62-64: the function returns an error of its own
GenerateAvatarDataError ==
    /\ generating
    /\ avatarToast' = Toast("error", "Rate limit exceeded", 0)
    /\ generating' = FALSE
    /\ UNCHANGED <<prompt, previewUrl, uploadedPhotos, saves>>
    /\ UNCHANGED outsideAvatar

\* lines 50, 59-64: the call fails
GenerateAvatarFails ==
    /\ generating
    /\ avatarToast' = Toast("error", "Failed to generate avatar", 0)
    /\ generating' = FALSE
    /\ UNCHANGED <<prompt, previewUrl, uploadedPhotos, saves>>
    /\ UNCHANGED outsideAvatar

\* saveAvatar, lines 67-71: there is a preview, getUser is pending
SaveAvatar ==
    /\ previewUrl
    /\ saves < MaxSaves
    /\ saves' = saves + 1
    /\ UNCHANGED <<prompt, generating, previewUrl, uploadedPhotos, avatarToast>>
    /\ UNCHANGED outsideAvatar

\* lines 73-85: the profile is updated; the preview, the description and the
\* photo selection are cleared
SaveAvatarOk ==
    /\ saves > 0
    /\ saves' = saves - 1
    /\ avatarToast' = Toast("success", "Avatar updated successfully!", 0)
    /\ previewUrl' = FALSE
    /\ prompt' = <<>>
    /\ uploadedPhotos' = <<>>
    /\ UNCHANGED generating
    /\ UNCHANGED outsideAvatar

\* lines 71, 79, 86-89: no user, or the update returns an error
SaveAvatarFails ==
    /\ saves > 0
    /\ saves' = saves - 1
    /\ avatarToast' = Toast("error", "Failed to save avatar", 0)
    /\ UNCHANGED <<prompt, generating, previewUrl, uploadedPhotos>>
    /\ UNCHANGED outsideAvatar

InitAvatar ==
    /\ ChatAtRest
    /\ ImageAtRest
    /\ LoopsAtRest
    /\ PanelsAtRest
    /\ AvatarAtRest

NextAvatar ==
    \/ HandlePhotoUpload
    \/ SetPrompt
    \/ GenerateAvatar
    \/ GenerateAvatarOk
    \/ GenerateAvatarDataError
    \/ GenerateAvatarFails
    \/ SaveAvatar
    \/ SaveAvatarOk
    \/ SaveAvatarFails

\* AvatarCustomizer and its user
SpecAvatar == InitAvatar /\ [][NextAvatar]_vars

----------------------------------------------------------------------------
(* C29: the photo selection of AvatarCustomizer.                           *)

Rejection == Toast("error", "Maximum 5 photos allowed", 0)

\* handlePhotoUpload, called in this state with any files the user can pick:
\* more than 5 are refused with the error and the stored selection stays,
\* 0 to 5 become the stored selection
UploadRejectsOrReplaces ==
    \A files \in Selections :
        LET r == PhotoUpload(uploadedPhotos, files) IN
        IF Len(files) > 5
        THEN r.photos = uploadedPhotos /\ r.toast = Rejection
        ELSE r.photos = files /\ r.toast.kind = "success"

\* C29: uploadedPhotos never holds more than 5 files; handlePhotoUpload
\* refuses a selection of more than 5 files with an error and leaves the
\* stored selection as it was, and stores any selection of 0 to 5 files in
\* its place
C29_AtMostFivePhotos ==
    /\ [](Len(uploadedPhotos) <= 5 /\ UploadRejectsOrReplaces)
    /\ [][(avatarToast' = Rejection /\ avatarToast # Rejection) =>
              uploadedPhotos' = uploadedPhotos]_vars
    /\ [][uploadedPhotos' # uploadedPhotos =>
              (uploadedPhotos' \in Selections /\ Len(uploadedPhotos') <= 5)]_vars

\* C29, reached: five photos are stored and a selection of more has just
\* been refused
C29_Witness ==
    /\ Len(uploadedPhotos) = 5
    /\ avatarToast = Rejection

====
